---- MODULE Spec2Model ----
(***************************************************************************)
(* A model of the metrics package of discogo (src/discord/bot.go, lines    *)
(* 311-626) and of the error categories it counts (src/unnamed/part_000).  *)
(*                                                                         *)
(* Goroutines are the processes Procs.  Each statement sequence that runs  *)
(* under one lock acquisition is cut into the steps named by pc, so that   *)
(* a state in which a lock is held and the protected fields are half       *)
(* updated (or half read) exists in the model.  time.Time values are       *)
(* whole seconds of the clock; a float64 quotient a/b is the rational      *)
(* Rat(a, b) and is compared exactly.                                      *)
(***************************************************************************)
EXTENDS Integers, Sequences, FiniteSets, TLC

\* ------------------------------------------------------------- bounds
NumProcs == 2
\* The calls made under the specification with fairness.
FairOps == 2
\* The messages dispatched, and the pieces of the longest text.
MaxMessages == 2
MaxPieces == 3
MaxOps == 3
MaxClock == 80
ClockStep == 40
MaxStamp == 80
StampStep == 20
MaxEvents == 3
MaxReads == 1
MaxNegativeStatus == 3
MaxStatusCode == 600

\* -------------------------------------------------- program constants
WindowSeconds == 60
StatusNotFound == 404
StatusTooManyRequests == 429

Procs == 1..NumProcs
NIL == 0

VARIABLES
    clock,
    globalMetrics, onceState, constructions,
    CommandsTotal, CommandsSuccessful, CommandsFailed, CommandsPerSecond,
    APIRequestsTotal, APIRequestsSuccessful, APIRequestsFailed,
    APIRequestsPerSecond, APIResponseTimeSum, APIResponseCount,
    ErrorsByType, BotStartTime,
    commandWindow, apiWindow,
    rwWriter, rwReaders,
    pc, loc, ref, ret,
    calls, occurred,
    rateWindow, lastCall,
    handling, dev, shutdown

cmdVars == <<CommandsTotal, CommandsSuccessful, CommandsFailed>>
apiVars == <<APIRequestsTotal, APIRequestsSuccessful, APIRequestsFailed,
             APIResponseTimeSum, APIResponseCount>>
rateVars == <<CommandsPerSecond, APIRequestsPerSecond>>
winVars == <<commandWindow, apiWindow>>
onceVars == <<globalMetrics, onceState, constructions, BotStartTime>>
lockVars == <<rwWriter, rwReaders>>
vars == <<clock, onceVars, cmdVars, apiVars, rateVars, ErrorsByType, winVars,
          lockVars, pc, loc, ref, ret, calls, occurred, rateWindow, lastCall,
          handling, dev, shutdown>>

\* --------------------------------------------------------- float64
Rat(n, d) == [num |-> n, den |-> d]
Zero == Rat(0, 1)
RatEq(a, b) == a.num * b.den = b.num * a.den

\* ------------------------------------------------------ time.Time
\* Mutant: !t.Before(u) in place of t.After(u).
NotBefore(t, u) == t >= u

\* t.After(u)
After(t, u) == t > u

\* Mutant: the window is not subtracted.
CutoffWithoutWindow(t, window) == t

\* t.Add(-window)
Cutoff(t, window) == t - window

\* -------------------------------------------------- RateWindow
\* NewRateWindow: an empty events slice and the window it was given.
NewRateWindow(window) == [events |-> <<>>, window |-> window]

\* The loop of RateWindow.Add over rw.events: the events after cutoff, in order.
ValidEvents(events, cutoff) == SelectSeq(events, LAMBDA event : After(event, cutoff))

\* Mutant: the new event is put in front of the slice.
AddInFront(rw, timestamp) ==
    LET cutoff == Cutoff(timestamp, rw.window)
    IN  [rw EXCEPT !.events = ValidEvents(<<timestamp>> \o rw.events, cutoff)]

\* RateWindow.Add, the whole body under rw.mutex.
Add(rw, timestamp) ==
    LET appended == Append(rw.events, timestamp)
        cutoff == Cutoff(timestamp, rw.window)
    IN  [rw EXCEPT !.events = ValidEvents(appended, cutoff)]

\* The counting loop of RateWindow.Rate.
CountValid(events, cutoff) ==
    Cardinality({i \in 1..Len(events) : After(events[i], cutoff)})

\* RateWindow.Rate, the whole body under rw.mutex, with time.Now() = now.
\* It returns a value and assigns nothing to rw.events.
Rate(rw, now) ==
    IF Len(rw.events) = 0
    THEN Zero
    ELSE Rat(CountValid(rw.events, Cutoff(now, rw.window)), rw.window)

\* ------------------------------------------------- the Metrics fields
\* The values of the fields of *globalMetrics that m.mutex guards, and whether
\* a writer is inside its critical section.
Registry ==
    [CommandsTotal |-> CommandsTotal, CommandsSuccessful |-> CommandsSuccessful,
     CommandsFailed |-> CommandsFailed, APIRequestsTotal |-> APIRequestsTotal,
     APIRequestsSuccessful |-> APIRequestsSuccessful,
     APIRequestsFailed |-> APIRequestsFailed,
     APIResponseTimeSum |-> APIResponseTimeSum,
     APIResponseCount |-> APIResponseCount, ErrorsByType |-> ErrorsByType,
     locked |-> rwWriter # NIL]

\* ------------------------------------------------------ sync.RWMutex
\* Mutants of the locking: a writer that takes no lock at all, a writer that
\* takes only the read lock, a reader that takes no lock.
LockNothing(p) == TRUE
LockAsReader(p) == rwWriter = NIL
RLockNothing(p) == TRUE

\* m.mutex.Lock() can return: no writer and no reader holds the lock.
CanLock(p) == rwWriter = NIL /\ rwReaders = {}

\* m.mutex.RLock() can return: no writer holds the lock.
CanRLock(p) == rwWriter = NIL

\* Mutant: the read lock is kept.
RUnlockMissing(p) == rwReaders

\* m.mutex.RUnlock(): p is a reader no more.
RUnlock(p) == rwReaders \ {p}

\* ------------------------------------------------------ Go maps
\* A value of a map type is a reference.  The one a Summary holds is either
\* the registry's map m.ErrorsByType itself (shared) or a map nobody else
\* holds, which then keeps the entries it was given.
\* Mutant: errorsByType := m.ErrorsByType, the registry's map itself.
SameMap(errorsByType) == [shared |-> TRUE, entries |-> [t \in {} |-> 0]]

\* errorsByType := make(map[...]int64) and the loop that copies every entry.
CopyOfMap(errorsByType) ==
    [shared |-> FALSE,
     entries |-> [k \in DOMAIN errorsByType |-> errorsByType[k]]]

\* The entries a reader finds behind a map value.
MapEntries(map) == IF map.shared THEN ErrorsByType ELSE map.entries

\* ------------------------------------------------- process bookkeeping
NoSummary ==
    [CommandsTotal |-> 0, CommandsSuccessful |-> 0, CommandsFailed |-> 0,
     CommandsPerSecond |-> Zero, CommandSuccessRate |-> Zero,
     APIRequestsTotal |-> 0, APIRequestsSuccessful |-> 0, APIRequestsFailed |-> 0,
     APIRequestsPerSecond |-> Zero, APISuccessRate |-> Zero,
     AverageResponseTime |-> Zero,
     ErrorsByType |-> [shared |-> FALSE, entries |-> [t \in {} |-> 0]],
     UptimeSeconds |-> 0, BotStartTime |-> <<"RFC3339", 0>>]
NoLoc == [op |-> "none", successful |-> FALSE, ms |-> 0, err |-> <<>>,
          errorType |-> "none", now |-> 0, rate |-> Zero, total |-> 0, sum |-> 0,
          summary |-> NoSummary]
NoRet == [kind |-> "none"]

\* A goroutine enters one of the package's entry points.
Start(p, label, l) ==
    /\ pc[p] = "idle"
    /\ pc' = [pc EXCEPT ![p] = label]
    /\ loc' = [loc EXCEPT ![p] = l]
    /\ ret' = [ret EXCEPT ![p] = NoRet]

\* The same, for a call that counts against MaxOps.
Begin(p, label, l) == calls.total < MaxOps /\ Start(p, label, l)

Goto(p, label) == pc' = [pc EXCEPT ![p] = label]

Return(p, value) ==
    /\ pc' = [pc EXCEPT ![p] = "idle"]
    /\ loc' = [loc EXCEPT ![p] = NoLoc]
    /\ ret' = [ret EXCEPT ![p] = value]

\* time.Now() returns t: a reading of a clock that never runs backwards.
\* clock is the latest reading any goroutine has taken.
ClockValues == {t \in 0..MaxClock : t % ClockStep = 0}
TimeNow(t) == t >= clock /\ clock' = t

\* ------------------------------------------------ Initialize and Get
\* The Metrics value built inside once.Do.
EmptyErrors == [t \in {} |-> 0]

\* The first statement of the method a call Get().<method> continues with.
FirstLabel(op) ==
    CASE op = "RecordCommand" -> "ic_now"
      [] op = "RecordAPIRequest" -> "ia_now"
      [] op = "RecordError" -> "ie_lock"
      [] op = "GetSummary" -> "gs_errs"
      [] op = "GetSuccessRate" -> "gr_total"
      [] op = "GetAPISuccessRate" -> "gp_total"
      [] op = "GetAverageResponseTime" -> "ga_sum"

\* Get or Initialize hands g to its caller; startTime is g.BotStartTime as the
\* caller finds it then.
Enter(p, g, startTime) ==
    /\ ref' = [ref EXCEPT ![p] = g]
    /\ IF loc[p].op \in {"Get", "Initialize"}
       THEN Return(p, [kind |-> "ref", ref |-> g, startTime |-> startTime])
       ELSE Goto(p, FirstLabel(loc[p].op)) /\ UNCHANGED <<loc, ret>>

\* The values the unsynchronised read `globalMetrics == nil` of Get can observe:
\* a goroutine that has already been handed the instance sees it; another one
\* may still see nil after the write inside once.Do.
RacyLoad(p) == IF ref[p] # NIL THEN {globalMetrics} ELSE {NIL, globalMetrics}

\* Get: `if globalMetrics == nil { return Initialize() }; return globalMetrics`.
GetLoad(p) ==
    /\ pc[p] = "get"
    /\ \E g \in RacyLoad(p) :
          IF g = NIL
          THEN Goto(p, "once") /\ UNCHANGED <<loc, ret, ref>>
          ELSE Enter(p, g, BotStartTime)
    /\ UNCHANGED <<clock, onceVars, cmdVars, apiVars, rateVars, ErrorsByType,
                   winVars, lockVars, calls, occurred, rateWindow, lastCall>>
    /\ UNCHANGED <<handling, dev, shutdown>>

\* Mutant: a nil check in place of once.Do, which lets a second caller in
\* while the first is still constructing.
OnceUnlessDone == onceState # "done"

\* once.Do lets a caller run the function: nobody has run or is running it.
OnceMayRun == onceState = "fresh"

\* Initialize: once.Do(...) entered by the caller that will run the function.
OnceEnter(p) ==
    /\ pc[p] = "once"
    /\ OnceMayRun
    /\ onceState' = "running"
    /\ Goto(p, "construct")
    /\ UNCHANGED <<clock, globalMetrics, constructions, BotStartTime, cmdVars,
                   apiVars, rateVars, ErrorsByType, winVars, lockVars, loc, ref,
                   ret, calls, occurred, rateWindow, lastCall>>
    /\ UNCHANGED <<handling, dev, shutdown>>

\* The function of once.Do: globalMetrics = &Metrics{...}; then Initialize
\* returns globalMetrics.
Construct(p) ==
    /\ pc[p] = "construct"
    /\ globalMetrics' = constructions + 1
    /\ constructions' = constructions + 1
    /\ \E t \in ClockValues :
          TimeNow(t) /\ BotStartTime' = t /\ Enter(p, constructions + 1, t)
    /\ ErrorsByType' = EmptyErrors
    /\ commandWindow' = NewRateWindow(WindowSeconds)
    /\ apiWindow' = NewRateWindow(WindowSeconds)
    /\ CommandsTotal' = 0 /\ CommandsSuccessful' = 0 /\ CommandsFailed' = 0
    /\ CommandsPerSecond' = Rat(0, 1)
    /\ APIRequestsTotal' = 0 /\ APIRequestsSuccessful' = 0
    /\ APIRequestsFailed' = 0 /\ APIRequestsPerSecond' = Rat(0, 1)
    /\ APIResponseTimeSum' = 0 /\ APIResponseCount' = 0
    /\ onceState' = "done"
    /\ UNCHANGED <<lockVars, calls, rateWindow, lastCall>>
    /\ occurred' = occurred \cup {Registry'}
    /\ UNCHANGED <<handling, dev, shutdown>>

\* Initialize: once.Do returns to a caller that found the function already run;
\* a caller that finds it running waits.
OnceDone(p) ==
    /\ pc[p] = "once"
    /\ onceState = "done"
    /\ Enter(p, globalMetrics, BotStartTime)
    /\ UNCHANGED <<clock, onceVars, cmdVars, apiVars, rateVars, ErrorsByType,
                   winVars, lockVars, calls, occurred, rateWindow, lastCall>>
    /\ UNCHANGED <<handling, dev, shutdown>>

\* ------------------------------------------------ IncrementCommands
\* now := time.Now()
IC_Now(p) ==
    /\ pc[p] = "ic_now"
    /\ \E t \in ClockValues : TimeNow(t) /\ loc' = [loc EXCEPT ![p].now = t]
    /\ Goto(p, "ic_lock")
    /\ UNCHANGED <<onceVars, cmdVars, apiVars, rateVars, ErrorsByType,
                   winVars, lockVars, ref, ret, calls, occurred, rateWindow, lastCall>>
    /\ UNCHANGED <<handling, dev, shutdown>>

\* m.mutex.Lock(), and the read of m.CommandsTotal that m.CommandsTotal++
\* starts with
IC_Lock(p) ==
    /\ pc[p] = "ic_lock"
    /\ CanLock(p)
    /\ rwWriter' = p
    /\ loc' = [loc EXCEPT ![p].total = CommandsTotal]
    /\ Goto(p, "ic_total")
    /\ UNCHANGED <<clock, onceVars, cmdVars, apiVars, rateVars, ErrorsByType,
                   winVars, rwReaders, ref, ret, calls, rateWindow, lastCall>>
    /\ occurred' = occurred \cup {Registry'}
    /\ UNCHANGED <<handling, dev, shutdown>>

\* the write of m.CommandsTotal++
IC_Total(p) ==
    /\ pc[p] = "ic_total"
    /\ CommandsTotal' = loc[p].total + 1
    /\ Goto(p, "ic_branch")
    /\ UNCHANGED <<clock, onceVars, CommandsSuccessful, CommandsFailed, apiVars,
                   rateVars, ErrorsByType, winVars, lockVars, loc, ref, ret,
                   calls, rateWindow, lastCall>>
    /\ occurred' = occurred \cup {Registry'}
    /\ UNCHANGED <<handling, dev, shutdown>>

\* if successful { m.CommandsSuccessful++ } else { m.CommandsFailed++ };
\* m.mutex.Unlock()
IC_Branch(p) ==
    /\ pc[p] = "ic_branch"
    /\ IF loc[p].successful
       THEN /\ CommandsSuccessful' = CommandsSuccessful + 1
            /\ UNCHANGED CommandsFailed
       ELSE /\ CommandsFailed' = CommandsFailed + 1
            /\ UNCHANGED CommandsSuccessful
    /\ rwWriter' = NIL
    /\ Goto(p, "ic_add")
    /\ UNCHANGED <<clock, onceVars, CommandsTotal, apiVars, rateVars,
                   ErrorsByType, winVars, rwReaders, loc, ref, ret, calls, rateWindow, lastCall>>
    /\ occurred' = occurred \cup {Registry'}
    /\ UNCHANGED <<handling, dev, shutdown>>

\* m.commandWindow.Add(now)
IC_Add(p) ==
    /\ pc[p] = "ic_add"
    /\ commandWindow' = Add(commandWindow, loc[p].now)
    /\ Goto(p, "ic_rate")
    /\ UNCHANGED <<clock, onceVars, cmdVars, apiVars, rateVars, ErrorsByType,
                   apiWindow, lockVars, loc, ref, ret, calls, occurred, rateWindow, lastCall>>
    /\ UNCHANGED <<handling, dev, shutdown>>

\* the call m.commandWindow.Rate() on the right of line 454
IC_Rate(p) ==
    /\ pc[p] = "ic_rate"
    /\ \E t \in ClockValues :
          /\ TimeNow(t)
          /\ loc' = [loc EXCEPT ![p].rate = Rate(commandWindow, t)]
          /\ calls' = [calls EXCEPT !.lastCmdRate = Rate(commandWindow, t)]
    /\ Goto(p, "ic_store")
    /\ UNCHANGED <<onceVars, cmdVars, apiVars, rateVars, ErrorsByType,
                   winVars, lockVars, ref, ret, occurred, rateWindow, lastCall>>
    /\ UNCHANGED <<handling, dev, shutdown>>

\* m.CommandsPerSecond = <that value>, written without m.mutex
IC_Store(p) ==
    /\ pc[p] = "ic_store"
    /\ CommandsPerSecond' = loc[p].rate
    /\ Return(p, [kind |-> "RecordCommand", successful |-> loc[p].successful])
    /\ UNCHANGED <<clock, onceVars, cmdVars, apiVars, APIRequestsPerSecond,
                   ErrorsByType, winVars, lockVars, ref, calls, occurred, rateWindow, lastCall>>
    /\ UNCHANGED <<handling, dev, shutdown>>

\* ---------------------------------------------- IncrementAPIRequests
\* now := time.Now()
IA_Now(p) ==
    /\ pc[p] = "ia_now"
    /\ \E t \in ClockValues : TimeNow(t) /\ loc' = [loc EXCEPT ![p].now = t]
    /\ Goto(p, "ia_lock")
    /\ UNCHANGED <<onceVars, cmdVars, apiVars, rateVars, ErrorsByType,
                   winVars, lockVars, ref, ret, calls, occurred, rateWindow, lastCall>>
    /\ UNCHANGED <<handling, dev, shutdown>>

\* m.mutex.Lock(); m.APIRequestsTotal++
IA_Total(p) ==
    /\ pc[p] = "ia_lock"
    /\ CanLock(p)
    /\ rwWriter' = p
    /\ APIRequestsTotal' = APIRequestsTotal + 1
    /\ Goto(p, "ia_rest")
    /\ UNCHANGED <<clock, onceVars, cmdVars, APIRequestsSuccessful,
                   APIRequestsFailed, APIResponseTimeSum, APIResponseCount,
                   rateVars, ErrorsByType, winVars, rwReaders, loc, ref, ret,
                   calls, rateWindow, lastCall>>
    /\ occurred' = occurred \cup {Registry'}
    /\ UNCHANGED <<handling, dev, shutdown>>

\* the success/failure branch; m.APIResponseTimeSum += responseTimeMs;
\* m.APIResponseCount++; m.mutex.Unlock()
IA_Rest(p) ==
    /\ pc[p] = "ia_rest"
    /\ IF loc[p].successful
       THEN /\ APIRequestsSuccessful' = APIRequestsSuccessful + 1
            /\ UNCHANGED APIRequestsFailed
       ELSE /\ APIRequestsFailed' = APIRequestsFailed + 1
            /\ UNCHANGED APIRequestsSuccessful
    /\ APIResponseTimeSum' = APIResponseTimeSum + loc[p].ms
    /\ APIResponseCount' = APIResponseCount + 1
    /\ rwWriter' = NIL
    /\ Goto(p, "ia_add")
    /\ UNCHANGED <<clock, onceVars, cmdVars, APIRequestsTotal, rateVars,
                   ErrorsByType, winVars, rwReaders, loc, ref, ret, calls, rateWindow, lastCall>>
    /\ occurred' = occurred \cup {Registry'}
    /\ UNCHANGED <<handling, dev, shutdown>>

\* m.apiWindow.Add(now)
IA_Add(p) ==
    /\ pc[p] = "ia_add"
    /\ apiWindow' = Add(apiWindow, loc[p].now)
    /\ Goto(p, "ia_rate")
    /\ UNCHANGED <<clock, onceVars, cmdVars, apiVars, rateVars, ErrorsByType,
                   commandWindow, lockVars, loc, ref, ret, calls, occurred, rateWindow, lastCall>>
    /\ UNCHANGED <<handling, dev, shutdown>>

\* the call m.apiWindow.Rate() on the right of line 475
IA_Rate(p) ==
    /\ pc[p] = "ia_rate"
    /\ \E t \in ClockValues :
          /\ TimeNow(t)
          /\ loc' = [loc EXCEPT ![p].rate = Rate(apiWindow, t)]
          /\ calls' = [calls EXCEPT !.lastAPIRate = Rate(apiWindow, t)]
    /\ Goto(p, "ia_store")
    /\ UNCHANGED <<onceVars, cmdVars, apiVars, rateVars, ErrorsByType,
                   winVars, lockVars, ref, ret, occurred, rateWindow, lastCall>>
    /\ UNCHANGED <<handling, dev, shutdown>>

\* m.APIRequestsPerSecond = <that value>, written without m.mutex
IA_Store(p) ==
    /\ pc[p] = "ia_store"
    /\ APIRequestsPerSecond' = loc[p].rate
    /\ Return(p, [kind |-> "RecordAPIRequest", successful |-> loc[p].successful])
    /\ UNCHANGED <<clock, onceVars, cmdVars, apiVars, CommandsPerSecond,
                   ErrorsByType, winVars, lockVars, ref, calls, occurred, rateWindow, lastCall>>
    /\ UNCHANGED <<handling, dev, shutdown>>

\* ------------------------------------------------------ IncrementError
\* m.ErrorsByType[t] read from a Go map: a missing key reads as 0.
CountOf(errorsByType, t) ==
    IF t \in DOMAIN errorsByType THEN errorsByType[t] ELSE 0

\* m.ErrorsByType[t] = n written to a Go map: a missing key is added.
WithCount(errorsByType, errorType, n) ==
    [t \in DOMAIN errorsByType \cup {errorType} |->
        IF t = errorType THEN n ELSE errorsByType[t]]

\* m.ErrorsByType[errorType]++ as a whole.
Incremented(errorsByType, errorType) ==
    WithCount(errorsByType, errorType, CountOf(errorsByType, errorType) + 1)

\* The argument botErr.Type of RecordError's call is the Type field of a nil
\* *BotError: the goroutine panics with a nil pointer dereference.
Panic == "panic"

IE_Panic(p) ==
    /\ pc[p] = "ie_lock"
    /\ loc[p].errorType = Panic
    /\ Return(p, [kind |-> Panic, err |-> loc[p].err])
    /\ UNCHANGED <<clock, onceVars, cmdVars, apiVars, rateVars, ErrorsByType,
                   winVars, lockVars, ref, calls, occurred, rateWindow, lastCall>>
    /\ UNCHANGED <<handling, dev, shutdown>>

\* m.mutex.Lock(); defer m.mutex.Unlock(); and the read of the map that
\* m.ErrorsByType[errorType]++ starts with
IE_Lock(p) ==
    /\ pc[p] = "ie_lock"
    /\ loc[p].errorType # Panic
    /\ CanLock(p)
    /\ rwWriter' = p
    /\ loc' = [loc EXCEPT ![p].total = CountOf(ErrorsByType, loc[p].errorType)]
    /\ Goto(p, "ie_inc")
    /\ UNCHANGED <<clock, onceVars, cmdVars, apiVars, rateVars, ErrorsByType,
                   winVars, rwReaders, ref, ret, calls, rateWindow, lastCall>>
    /\ occurred' = occurred \cup {Registry'}
    /\ UNCHANGED <<handling, dev, shutdown>>

\* the write of m.ErrorsByType[errorType]++, and the deferred Unlock on return
IE_Inc(p) ==
    /\ pc[p] = "ie_inc"
    /\ ErrorsByType' = WithCount(ErrorsByType, loc[p].errorType, loc[p].total + 1)
    /\ rwWriter' = NIL
    /\ Return(p, [kind |-> "RecordError", err |-> loc[p].err,
                  errorType |-> loc[p].errorType])
    /\ calls' = [calls EXCEPT !.errorAfterSummary =
                     @ \/ \E q \in Procs : ret[q].kind = "GetSummary"]
    /\ UNCHANGED <<clock, onceVars, cmdVars, apiVars, rateVars, winVars,
                   rwReaders, ref, rateWindow, lastCall>>
    /\ occurred' = occurred \cup {Registry'}
    /\ UNCHANGED <<handling, dev, shutdown>>

\* ---------------------------------------------- GetAverageResponseTime
\* m.mutex.RLock(); responseTimeSum := m.APIResponseTimeSum
GA_Sum(p) ==
    /\ pc[p] = "ga_sum"
    /\ CanRLock(p)
    /\ rwReaders' = rwReaders \cup {p}
    /\ loc' = [loc EXCEPT ![p].sum = APIResponseTimeSum]
    /\ Goto(p, "ga_count")
    /\ UNCHANGED <<clock, onceVars, cmdVars, apiVars, rateVars, ErrorsByType,
                   winVars, rwWriter, ref, ret, calls, occurred, rateWindow, lastCall>>
    /\ UNCHANGED <<handling, dev, shutdown>>

\* float64(responseTimeSum) / float64(responseCount), 0.0 for no response
Average(responseTimeSum, responseCount) ==
    IF responseCount = 0 THEN Zero ELSE Rat(responseTimeSum, responseCount)

\* responseCount := m.APIResponseCount; m.mutex.RUnlock(); the return value
GA_Count(p) ==
    /\ pc[p] = "ga_count"
    /\ rwReaders' = RUnlock(p)
    /\ Return(p, [kind |-> "GetAverageResponseTime",
                  value |-> Average(loc[p].sum, APIResponseCount)])
    /\ UNCHANGED <<clock, onceVars, cmdVars, apiVars, rateVars, ErrorsByType,
                   winVars, rwWriter, ref, calls, occurred, rateWindow, lastCall>>
    /\ UNCHANGED <<handling, dev, shutdown>>

\* ------------------------------- GetSuccessRate and GetAPISuccessRate
\* (float64(successful) / float64(total)) * 100.0, 0.0 for total == 0
Percent(successful, total) ==
    IF total = 0 THEN Zero ELSE Rat(successful * 100, total)

\* m.mutex.RLock(); total := m.CommandsTotal
GR_Total(p) ==
    /\ pc[p] = "gr_total"
    /\ CanRLock(p)
    /\ rwReaders' = rwReaders \cup {p}
    /\ loc' = [loc EXCEPT ![p].total = CommandsTotal]
    /\ Goto(p, "gr_succ")
    /\ UNCHANGED <<clock, onceVars, cmdVars, apiVars, rateVars, ErrorsByType,
                   winVars, rwWriter, ref, ret, calls, occurred, rateWindow, lastCall>>
    /\ UNCHANGED <<handling, dev, shutdown>>

\* successful := m.CommandsSuccessful; m.mutex.RUnlock(); the return value
GR_Succ(p) ==
    /\ pc[p] = "gr_succ"
    /\ rwReaders' = RUnlock(p)
    /\ Return(p, [kind |-> "GetSuccessRate", total |-> loc[p].total,
                  value |-> Percent(CommandsSuccessful, loc[p].total)])
    /\ UNCHANGED <<clock, onceVars, cmdVars, apiVars, rateVars, ErrorsByType,
                   winVars, rwWriter, ref, calls, occurred, rateWindow, lastCall>>
    /\ UNCHANGED <<handling, dev, shutdown>>

\* m.mutex.RLock(); total := m.APIRequestsTotal
GP_Total(p) ==
    /\ pc[p] = "gp_total"
    /\ CanRLock(p)
    /\ rwReaders' = rwReaders \cup {p}
    /\ loc' = [loc EXCEPT ![p].total = APIRequestsTotal]
    /\ Goto(p, "gp_succ")
    /\ UNCHANGED <<clock, onceVars, cmdVars, apiVars, rateVars, ErrorsByType,
                   winVars, rwWriter, ref, ret, calls, occurred, rateWindow, lastCall>>
    /\ UNCHANGED <<handling, dev, shutdown>>

\* successful := m.APIRequestsSuccessful; m.mutex.RUnlock(); the return value
GP_Succ(p) ==
    /\ pc[p] = "gp_succ"
    /\ rwReaders' = RUnlock(p)
    /\ Return(p, [kind |-> "GetAPISuccessRate", total |-> loc[p].total,
                  value |-> Percent(APIRequestsSuccessful, loc[p].total)])
    /\ UNCHANGED <<clock, onceVars, cmdVars, apiVars, rateVars, ErrorsByType,
                   winVars, rwWriter, ref, calls, occurred, rateWindow, lastCall>>
    /\ UNCHANGED <<handling, dev, shutdown>>

\* ------------------------------------------------------------ GetSummary
\* BotStartTime.Format(time.RFC3339) of a time of whole seconds
FormatRFC3339(t) == <<"RFC3339", t>>

\* m.mutex.RLock(); the loop copying m.ErrorsByType; m.mutex.RUnlock()
GS_Errors(p) ==
    /\ pc[p] = "gs_errs"
    /\ CanRLock(p)
    /\ loc' = [loc EXCEPT ![p].summary.ErrorsByType = CopyOfMap(ErrorsByType)]
    /\ Goto(p, "gs_cmdtotal")
    /\ UNCHANGED <<clock, onceVars, cmdVars, apiVars, rateVars, ErrorsByType,
                   winVars, lockVars, ref, ret, calls, occurred, rateWindow, lastCall>>
    /\ UNCHANGED <<handling, dev, shutdown>>

\* m.mutex.RLock(); CommandsTotal: m.CommandsTotal
GS_CmdTotal(p) ==
    /\ pc[p] = "gs_cmdtotal"
    /\ CanRLock(p)
    /\ rwReaders' = rwReaders \cup {p}
    /\ loc' = [loc EXCEPT ![p].summary.CommandsTotal = CommandsTotal]
    /\ Goto(p, "gs_cmd")
    /\ UNCHANGED <<clock, onceVars, cmdVars, apiVars, rateVars, ErrorsByType,
                   winVars, rwWriter, ref, ret, calls, occurred, rateWindow, lastCall>>
    /\ UNCHANGED <<handling, dev, shutdown>>

\* CommandsSuccessful, CommandsFailed, CommandsPerSecond of the literal
GS_Cmd(p) ==
    /\ pc[p] = "gs_cmd"
    /\ loc' = [loc EXCEPT ![p].summary.CommandsSuccessful = CommandsSuccessful,
                          ![p].summary.CommandsFailed = CommandsFailed,
                          ![p].summary.CommandsPerSecond = CommandsPerSecond]
    /\ Goto(p, "gs_apitotal")
    /\ UNCHANGED <<clock, onceVars, cmdVars, apiVars, rateVars, ErrorsByType,
                   winVars, lockVars, ref, ret, calls, occurred, rateWindow, lastCall>>
    /\ UNCHANGED <<handling, dev, shutdown>>

\* APIRequestsTotal: m.APIRequestsTotal
GS_APITotal(p) ==
    /\ pc[p] = "gs_apitotal"
    /\ loc' = [loc EXCEPT ![p].summary.APIRequestsTotal = APIRequestsTotal]
    /\ Goto(p, "gs_api")
    /\ UNCHANGED <<clock, onceVars, cmdVars, apiVars, rateVars, ErrorsByType,
                   winVars, lockVars, ref, ret, calls, occurred, rateWindow, lastCall>>
    /\ UNCHANGED <<handling, dev, shutdown>>

\* Mutant: the Summary is given the two rates of the windows at the time of
\* the snapshot in place of the cached fields.
SummarizeWithFreshRates(summary, now) ==
    [summary EXCEPT
        !.APIRequestsSuccessful = APIRequestsSuccessful,
        !.APIRequestsFailed = APIRequestsFailed,
        !.CommandsPerSecond = Rate(commandWindow, now),
        !.APIRequestsPerSecond = Rate(apiWindow, now),
        !.UptimeSeconds = now - BotStartTime,
        !.BotStartTime = FormatRFC3339(BotStartTime),
        !.CommandSuccessRate =
            IF summary.CommandsTotal > 0
            THEN Rat(summary.CommandsSuccessful * 100, summary.CommandsTotal)
            ELSE Zero,
        !.APISuccessRate =
            IF summary.APIRequestsTotal > 0
            THEN Rat(APIRequestsSuccessful * 100, summary.APIRequestsTotal)
            ELSE Zero,
        !.AverageResponseTime =
            IF APIResponseCount > 0
            THEN Rat(APIResponseTimeSum, APIResponseCount)
            ELSE Zero]

\* Mutant: the three quotients are computed without the tests for zero.
SummarizeUnguarded(summary, now) ==
    [summary EXCEPT
        !.APIRequestsSuccessful = APIRequestsSuccessful,
        !.APIRequestsFailed = APIRequestsFailed,
        !.APIRequestsPerSecond = APIRequestsPerSecond,
        !.UptimeSeconds = now - BotStartTime,
        !.BotStartTime = FormatRFC3339(BotStartTime),
        !.CommandSuccessRate =
            Rat(summary.CommandsSuccessful * 100, summary.CommandsTotal),
        !.APISuccessRate =
            Rat(APIRequestsSuccessful * 100, summary.APIRequestsTotal),
        !.AverageResponseTime = Rat(APIResponseTimeSum, APIResponseCount)]

\* The rest of the literal, the two success rates computed from the summary,
\* the average computed from m's fields, m.mutex.RUnlock(), and the return.
Summarize(summary, now) ==
    [summary EXCEPT
        !.APIRequestsSuccessful = APIRequestsSuccessful,
        !.APIRequestsFailed = APIRequestsFailed,
        !.APIRequestsPerSecond = APIRequestsPerSecond,
        !.UptimeSeconds = now - BotStartTime,
        !.BotStartTime = FormatRFC3339(BotStartTime),
        !.CommandSuccessRate =
            IF summary.CommandsTotal > 0
            THEN Rat(summary.CommandsSuccessful * 100, summary.CommandsTotal)
            ELSE Zero,
        !.APISuccessRate =
            IF summary.APIRequestsTotal > 0
            THEN Rat(APIRequestsSuccessful * 100, summary.APIRequestsTotal)
            ELSE Zero,
        !.AverageResponseTime =
            IF APIResponseCount > 0
            THEN Rat(APIResponseTimeSum, APIResponseCount)
            ELSE Zero]

GS_API(p) ==
    /\ pc[p] = "gs_api"
    /\ rwReaders' = RUnlock(p)
    /\ \E t \in ClockValues :
          /\ TimeNow(t)
          /\ Return(p, [kind |-> "GetSummary",
                        value |-> Summarize(loc[p].summary, t)])
    /\ UNCHANGED <<onceVars, cmdVars, apiVars, rateVars, ErrorsByType,
                   winVars, rwWriter, ref, calls, occurred, rateWindow, lastCall>>
    /\ UNCHANGED <<handling, dev, shutdown>>

\* ------------------------------------------------------- the callers
\* The error categories of the errors package.
ErrorTypes == {"api_error", "config_error", "discord_error", "validation_error",
               "not_found_error", "rate_limit_error", "network_error",
               "internal_error"}

\* An error value is its Unwrap chain, outermost first: the Type of each
\* *BotError in it, "plain" for any other error, NilBotError for a nil
\* *BotError held in a non-nil error; <<>> is the nil error.
NilBotError == "nil_bot_error"
ErrValues == {<<"plain">>, <<"discord_error", "plain">>,
              <<"plain", "rate_limit_error", "api_error">>}
ErrChains == ErrValues \cup {<<>>, <<NilBotError>>, <<"plain", NilBotError>>}

\* RecordError: errors.As stops at the first element of the chain that is
\* assignable to *BotError, nil or not, and its Type is counted;
\* ErrorTypeInternal is counted when there is none.
Classify(err) ==
    LET found == {i \in 1..Len(err) : err[i] \in ErrorTypes \cup {NilBotError}}
        first == err[CHOOSE i \in found : \A j \in found : i <= j]
    IN  IF found = {} THEN "internal_error"
        ELSE IF first = NilBotError THEN Panic
        ELSE first

\* The category the spec gives an error value: that of the first value of the
\* chain that carries one, internal when none does.
Tagged(err) ==
    LET tagged == {i \in 1..Len(err) : err[i] \in ErrorTypes}
    IN  IF tagged = {} THEN "internal_error"
        ELSE err[CHOOSE i \in tagged : \A j \in tagged : i <= j]

LatencyValues == {-10, 30}
AverageLatencies == {10, 20, 30}
TypicalLatency == {30}

InFlight(op) == {q \in Procs : loc[q].op = op}

Called == [calls EXCEPT !.total = @ + 1]

\* metrics.Get()
CallGet(p) ==
    /\ Begin(p, "get", [NoLoc EXCEPT !.op = "Get"])
    /\ calls' = Called
    /\ UNCHANGED <<clock, onceVars, cmdVars, apiVars, rateVars, ErrorsByType,
                   winVars, lockVars, ref, occurred, rateWindow, lastCall>>
    /\ UNCHANGED <<handling, dev, shutdown>>

\* metrics.Initialize()
CallInitialize(p) ==
    /\ Begin(p, "once", [NoLoc EXCEPT !.op = "Initialize"])
    /\ calls' = Called
    /\ UNCHANGED <<clock, onceVars, cmdVars, apiVars, rateVars, ErrorsByType,
                   winVars, lockVars, ref, occurred, rateWindow, lastCall>>
    /\ UNCHANGED <<handling, dev, shutdown>>

\* metrics.RecordCommand(successful)
CallRecordCommand(p) ==
    /\ \E successful \in BOOLEAN :
          /\ Begin(p, "get", [NoLoc EXCEPT !.op = "RecordCommand",
                                           !.successful = successful])
          /\ calls' = [Called EXCEPT
                          !.commandsOK = @ + (IF successful THEN 1 ELSE 0),
                          !.commandsFailed = @ + (IF successful THEN 0 ELSE 1),
                          !.overlapCommands =
                              @ \/ InFlight("RecordCommand") # {}]
    /\ UNCHANGED <<clock, onceVars, cmdVars, apiVars, rateVars, ErrorsByType,
                   winVars, lockVars, ref, occurred, rateWindow, lastCall>>
    /\ UNCHANGED <<handling, dev, shutdown>>

\* metrics.RecordAPIRequest(successful, responseTimeMs)
CallRecordAPIRequest(p, outcomes, latencies) ==
    /\ \E successful \in outcomes, ms \in latencies :
          /\ Begin(p, "get", [NoLoc EXCEPT !.op = "RecordAPIRequest",
                                           !.successful = successful,
                                           !.ms = ms])
          /\ calls' = [Called EXCEPT
                          !.overlapAPI = @ \/ InFlight("RecordAPIRequest") # {},
                          !.latencies = @ \cup {ms}]
    /\ UNCHANGED <<clock, onceVars, cmdVars, apiVars, rateVars, ErrorsByType,
                   winVars, lockVars, ref, occurred, rateWindow, lastCall>>
    /\ UNCHANGED <<handling, dev, shutdown>>

\* metrics.RecordError(err): errors.As is evaluated before Get()
CallRecordError(p, errs) ==
    /\ \E err \in errs :
          /\ Begin(p, "get", [NoLoc EXCEPT !.op = "RecordError", !.err = err,
                                           !.errorType = Classify(err)])
          /\ calls' = [Called EXCEPT !.errors = Incremented(@, Tagged(err))]
    /\ UNCHANGED <<clock, onceVars, cmdVars, apiVars, rateVars, ErrorsByType,
                   winVars, lockVars, ref, occurred, rateWindow, lastCall>>
    /\ UNCHANGED <<handling, dev, shutdown>>

\* metrics.Get().GetSummary()
CallGetSummary(p) ==
    /\ Begin(p, "get", [NoLoc EXCEPT !.op = "GetSummary"])
    /\ calls' = Called
    /\ UNCHANGED <<clock, onceVars, cmdVars, apiVars, rateVars, ErrorsByType,
                   winVars, lockVars, ref, occurred, rateWindow, lastCall>>
    /\ UNCHANGED <<handling, dev, shutdown>>

\* metrics.Get().GetSuccessRate(), .GetAPISuccessRate(),
\* .GetAverageResponseTime()
CallGetter(p, getters) ==
    /\ \E op \in getters :
          Begin(p, "get", [NoLoc EXCEPT !.op = op])
    /\ calls' = Called
    /\ UNCHANGED <<clock, onceVars, cmdVars, apiVars, rateVars, ErrorsByType,
                   winVars, lockVars, ref, occurred, rateWindow, lastCall>>
    /\ UNCHANGED <<handling, dev, shutdown>>

\* metrics.Get().GetAverageResponseTime(), by a reader whose calls count
\* against MaxReads
CallGetAverageResponseTime(p) ==
    /\ calls.reads < MaxReads
    /\ Start(p, "get", [NoLoc EXCEPT !.op = "GetAverageResponseTime"])
    /\ calls' = [calls EXCEPT !.reads = @ + 1]
    /\ UNCHANGED <<clock, onceVars, cmdVars, apiVars, rateVars, ErrorsByType,
                   winVars, lockVars, ref, occurred, rateWindow, lastCall>>
    /\ UNCHANGED <<handling, dev, shutdown>>

\* ------------------------------------------------- Bot.messageCreate
\* The text of a message is a sequence of pieces: the command prefix, white
\* space, and runs of letters.
CommandPrefix == "!"
Space == " "

\* The texts of at most MaxPieces pieces.
Contents ==
    UNION {[1..n -> {CommandPrefix, Space, "ping", "PING", "stats", "nope"}] :
              n \in 0..MaxPieces}

\* strings.HasPrefix(m.Content, b.config.CommandPrefix)
HasPrefix(content) == Len(content) > 0 /\ content[1] = CommandPrefix

\* strings.TrimPrefix(m.Content, b.config.CommandPrefix)
TrimPrefix(content) == IF HasPrefix(content) THEN Tail(content) ELSE content

\* strings.Fields: the maximal runs of pieces that are not white space, in
\* order.
RECURSIVE Fields(_)
Fields(content) ==
    IF Len(content) = 0 THEN <<>>
    ELSE IF content[1] = Space THEN Fields(Tail(content))
    ELSE LET rest == Fields(Tail(content))
         IN  IF Len(content) > 1 /\ content[2] # Space
             THEN <<(<<content[1]>> \o rest[1])>> \o Tail(rest)
             ELSE <<(<<content[1]>>)>> \o rest

\* strings.ToLower on a run of pieces.
ToLower(word) ==
    [i \in 1..Len(word) |-> IF word[i] = "PING" THEN "ping" ELSE word[i]]

\* registerCommands: the keys of b.commandHandlers.
commandHandlers == {<<"ping">>, <<"help">>, <<"stats">>}

\* What a handler returns when ChannelMessageSendEmbed fails.
NewDiscordError == <<"discord_error", "plain">>

\* The dispatch of one message by a goroutine: where it stands, the command
\* it resolved, the error of the handler, the calls that record a command or
\* an error, the embeds that reached the channel (replies) and the embeds
\* whose ChannelMessageSendEmbed returned an error (unsent).
NoMessage ==
    [stage |-> "none", kind |-> "none", command |-> <<>>, err |-> <<>>,
     recorded |-> <<>>, replies |-> <<>>, unsent |-> <<>>]

\* What the message is, read off its text alone: from a bot, without the
\* prefix, with nothing but white space after it, or else a command, which is
\* registered when the letters up to the first white space are, in lower
\* case, the name of a handler.
KindOf(bot, content) ==
    LET after == {i \in 2..Len(content) : content[i] # Space}
        first == CHOOSE i \in after : \A j \in after : i <= j
        last == CHOOSE i \in first..Len(content) :
                    /\ \A j \in first..i : content[j] # Space
                    /\ i = Len(content) \/ content[i + 1] = Space
        name == [i \in 1..(last - first + 1) |->
                    IF content[first + i - 1] = "PING" THEN "ping"
                    ELSE content[first + i - 1]]
    IN  IF bot THEN "bot"
        ELSE IF Len(content) = 0 \/ content[1] # CommandPrefix THEN "no_prefix"
        ELSE IF after = {} THEN "empty"
        ELSE IF name \in {<<"ping">>, <<"help">>, <<"stats">>} THEN "registered"
        ELSE "unknown"

\* The function returns: its local variables are gone.
Returned(message) ==
    [message EXCEPT !.stage = "done", !.command = <<>>, !.err = <<>>]

\* Mutant: the command is recorded as failed after every handler.
RecordsFailure(err) == FALSE

\* Mutant: the command is recorded as successful after every handler.
RecordsSuccess(err) == TRUE

\* The argument of metrics.RecordCommand: whether the handler returned nil.
HandlerSucceeded(err) == err = <<>>

\* messageCreate up to the handler lookup: a message from a bot, without the
\* prefix or with no field after it is dropped; a command without a handler
\* goes to the reply of line 128.
MC_Receive(p) ==
    /\ pc[p] = "idle"
    /\ handling[p].stage \in {"none", "done"}
    /\ calls.total < MaxMessages
    /\ \E bot \in BOOLEAN, content \in Contents :
          LET parts == Fields(TrimPrefix(content))
              command == IF Len(parts) = 0 THEN <<>> ELSE ToLower(parts[1])
              stage == IF bot \/ ~HasPrefix(content) \/ Len(parts) = 0
                       THEN "done"
                       ELSE IF command \in commandHandlers THEN "handler"
                       ELSE "unknown"
              message == [NoMessage EXCEPT !.stage = stage,
                                           !.kind = KindOf(bot, content),
                                           !.command = command]
          IN  handling' = [handling EXCEPT ![p] =
                              IF stage = "done" THEN Returned(message)
                              ELSE message]
    /\ calls' = Called
    /\ UNCHANGED <<clock, onceVars, cmdVars, apiVars, rateVars, ErrorsByType,
                   winVars, lockVars, pc, loc, ref, ret, occurred, rateWindow,
                   lastCall, dev, shutdown>>

\* handleStats: summary := metrics.Get().GetSummary()
MC_Stats(p) ==
    /\ handling[p].stage = "handler"
    /\ handling[p].command = <<"stats">>
    /\ Start(p, "get", [NoLoc EXCEPT !.op = "GetSummary"])
    /\ handling' = [handling EXCEPT ![p].stage = "send"]
    /\ UNCHANGED <<clock, onceVars, cmdVars, apiVars, rateVars, ErrorsByType,
                   winVars, lockVars, ref, calls, occurred, rateWindow,
                   lastCall, dev, shutdown>>

\* handlePing, handleHelp, and handleStats after its summary: the embed is
\* sent, and the handler returns nil or the error it wraps.
MC_Handler(p) ==
    /\ pc[p] = "idle"
    /\ \/ handling[p].stage = "handler" /\ handling[p].command # <<"stats">>
       \/ handling[p].stage = "send"
    /\ \E err \in {<<>>, NewDiscordError} :
          /\ handling' = [handling EXCEPT
                 ![p].stage = "returned", ![p].err = err,
                 ![p].replies = IF err = <<>> THEN Append(@, "embed") ELSE @,
                 ![p].unsent = IF err = <<>> THEN @ ELSE Append(@, "embed")]
          /\ calls' = [calls EXCEPT
                 !.commandsOK = @ + (IF err = <<>> THEN 1 ELSE 0),
                 !.commandsFailed = @ + (IF err = <<>> THEN 0 ELSE 1),
                 !.errors = IF err = <<>> THEN @
                            ELSE Incremented(@, Tagged(err))]
    /\ UNCHANGED <<clock, onceVars, cmdVars, apiVars, rateVars, ErrorsByType,
                   winVars, lockVars, pc, loc, ref, ret, occurred,
                   rateWindow, lastCall, dev, shutdown>>

\* metrics.RecordCommand(false) of line 117 or metrics.RecordCommand(true) of
\* line 121
MC_RecordCommand(p) ==
    /\ handling[p].stage = "returned"
    /\ LET successful == HandlerSucceeded(handling[p].err)
       IN  /\ Start(p, "get", [NoLoc EXCEPT !.op = "RecordCommand",
                                            !.successful = successful])
           /\ handling' = [handling EXCEPT
                  ![p].stage = IF handling[p].err = <<>> THEN "logged"
                               ELSE "command_recorded",
                  ![p].recorded = Append(@, [op |-> "RecordCommand",
                                             successful |-> successful])]
    /\ UNCHANGED <<clock, onceVars, cmdVars, apiVars, rateVars, ErrorsByType,
                   winVars, lockVars, ref, calls, occurred, rateWindow,
                   lastCall, dev, shutdown>>

\* metrics.RecordError(err) of line 118
MC_RecordError(p) ==
    /\ handling[p].stage = "command_recorded"
    /\ Start(p, "get", [NoLoc EXCEPT !.op = "RecordError",
                                     !.err = handling[p].err,
                                     !.errorType = Classify(handling[p].err)])
    /\ handling' = [handling EXCEPT
           ![p].stage = "error_recorded",
           ![p].recorded = Append(@, [op |-> "RecordError",
                                      err |-> handling[p].err])]
    /\ UNCHANGED <<clock, onceVars, cmdVars, apiVars, rateVars, ErrorsByType,
                   winVars, lockVars, ref, calls, occurred, rateWindow,
                   lastCall, dev, shutdown>>

\* b.sendErrorMessage of line 119 or of line 128, then the return: the error
\* embed is sent, and when ChannelMessageSendEmbed returns an error the
\* failure is logged and nothing reaches the channel.
MC_SendError(p) ==
    /\ pc[p] = "idle"
    /\ handling[p].stage \in {"error_recorded", "unknown"}
    /\ \E sent \in BOOLEAN :
          handling' = [handling EXCEPT
              ![p] = Returned(
                  [@ EXCEPT
                      !.replies = IF sent THEN Append(@, "error") ELSE @,
                      !.unsent = IF sent THEN @ ELSE Append(@, "error")])]
    /\ UNCHANGED <<clock, onceVars, cmdVars, apiVars, rateVars, ErrorsByType,
                   winVars, lockVars, pc, loc, ref, ret, calls, occurred,
                   rateWindow, lastCall, dev, shutdown>>

\* logging.LogDiscordCommand of line 122, then the return of line 124
MC_Return(p) ==
    /\ pc[p] = "idle"
    /\ handling[p].stage = "logged"
    /\ handling' = [handling EXCEPT ![p] = Returned(@)]
    /\ UNCHANGED <<clock, onceVars, cmdVars, apiVars, rateVars, ErrorsByType,
                   winVars, lockVars, pc, loc, ref, ret, calls, occurred,
                   rateWindow, lastCall, dev, shutdown>>


\* ------------------------------------------------- magefile: Dev
\* The restarts after which Dev gives up.
MaxRestartCount == 10

\* The variables the .env file may name.  An environment gives each its
\* value, a sequence of pieces of text; <<>> is what os.Getenv returns for a
\* variable that is not set or is empty.
EnvKeys == {"DISCORD_TOKEN", "LOG_LEVEL"}
NoEnv == [key \in EnvKeys |-> <<>>]

\* The environments Dev is run in.
SystemEnvs == {NoEnv, [NoEnv EXCEPT !["LOG_LEVEL"] = <<"s">>]}

\* The .env files: none, two that differ in the value of DISCORD_TOKEN, and
\* one whose second value is a quote alone.
\* A line, after strings.TrimSpace, is a blank line or a comment, a line
\* without "=", or key=value.
EnvFiles ==
    {[exists |-> FALSE, lines |-> <<>>],
     [exists |-> TRUE,
      lines |-> <<[kind |-> "comment"],
                  [kind |-> "pair", key |-> "DISCORD_TOKEN", value |-> <<"a">>],
                  [kind |-> "word"]>>],
     [exists |-> TRUE,
      lines |-> <<[kind |-> "pair", key |-> "DISCORD_TOKEN",
                   value |-> <<"'", "b", "'">>],
                  [kind |-> "pair", key |-> "LOG_LEVEL",
                   value |-> <<"\"", "a", "\"">>]>>],
     [exists |-> TRUE,
      lines |-> <<[kind |-> "pair", key |-> "LOG_LEVEL", value |-> <<"a">>],
                  [kind |-> "pair", key |-> "DISCORD_TOKEN",
                   value |-> <<"'">>]>>]}

\* Lines 65-68: a value that begins and ends with the same quote loses its
\* first and its last character.  A quote alone begins and ends with itself,
\* and value[1 : len(value)-1] is then value[1:0], which panics.
Unquote(value) ==
    IF /\ Len(value) >= 1
       /\ value[1] \in {"\"", "'"}
       /\ value[Len(value)] = value[1]
    THEN IF Len(value) = 1 THEN Panic
         ELSE SubSeq(value, 2, Len(value) - 1)
    ELSE value

\* The loop of loadEnvFile over the lines: the quotes of each key=value line
\* are removed, then os.Setenv is called if os.Getenv finds the key empty.
\* The result is the environment of the process and whether the loop
\* panicked, which ends the process at that line.
RECURSIVE SetFrom(_, _)
SetFrom(environ, lines) ==
    IF lines = <<>> THEN [panicked |-> FALSE, environ |-> environ]
    ELSE LET line == Head(lines)
         IN  IF line.kind # "pair" THEN SetFrom(environ, Tail(lines))
             ELSE IF Unquote(line.value) = Panic
             THEN [panicked |-> TRUE, environ |-> environ]
             ELSE IF environ[line.key] = <<>>
             THEN SetFrom([environ EXCEPT ![line.key] = Unquote(line.value)],
                          Tail(lines))
             ELSE SetFrom(environ, Tail(lines))

\* loadEnvFile: nothing when there is no .env file.
loadEnvFile(environ, file) ==
    IF file.exists THEN SetFrom(environ, file.lines)
    ELSE [panicked |-> FALSE, environ |-> environ]

\* cmd.Env = append(os.Environ(), "BOT_NAME=" + botName)
CmdEnv(environ) ==
    [key \in EnvKeys \cup {"BOT_NAME"} |->
        IF key = "BOT_NAME" THEN <<"discord-bot">> ELSE environ[key]]

\* What cmd.Wait() returns: nil, an *exec.ExitError with its exit code, or
\* another error.
WaitResults ==
    {[kind |-> "nil", code |-> 0], [kind |-> "ExitError", code |-> 1],
     [kind |-> "ExitError", code |-> 2], [kind |-> "error", code |-> 0]}

Signals == {"interrupt", "terminated"}

\* Dev before it is run.  sigChan and done are channels of capacity 1;
\* system is the environment Dev was run in, loaded the .env file as the
\* latest loadEnvFile read it, starts the number of cmd.Start() calls that
\* succeeded, cause why Dev stopped restarting.
DevOff ==
    [pc |-> "off", restartCount |-> 0, sigChan |-> <<>>, done |-> <<>>,
     process |-> "none", environ |-> NoEnv, system |-> NoEnv,
     file |-> [exists |-> FALSE, lines |-> <<>>],
     loaded |-> [exists |-> FALSE, lines |-> <<>>], cmdEnv |-> CmdEnv(NoEnv),
     starts |-> 0, cause |-> "none", err |-> "none"]

\* Mutant: one more restart is allowed.
TooManyRestartsLate(restartCount) == restartCount > MaxRestartCount + 1

\* if restartCount > 10
TooManyRestarts(restartCount) == restartCount > MaxRestartCount

\* mage dev is run: os.Stat("main.go"), the signal channel, restartCount := 0
Dev_Begin ==
    /\ dev.pc = "off"
    /\ \E system \in SystemEnvs, file \in EnvFiles, exists \in BOOLEAN :
          dev' = IF exists
                 THEN [dev EXCEPT !.pc = "load", !.system = system,
                                  !.environ = system, !.file = file]
                 ELSE [dev EXCEPT !.pc = "returned",
                                  !.err = "main.go does not exist"]
    /\ UNCHANGED <<clock, onceVars, cmdVars, apiVars, rateVars, ErrorsByType,
                   winVars, lockVars, pc, loc, ref, ret, calls, occurred,
                   rateWindow, lastCall, handling, shutdown>>

\* loadEnvFile() at the top of the loop; a panic in it ends mage
Dev_Load ==
    /\ dev.pc = "load"
    /\ LET load == loadEnvFile(dev.environ, dev.file)
       IN  dev' = IF load.panicked
                  THEN [dev EXCEPT !.pc = "panicked", !.cause = "panic",
                                   !.environ = load.environ]
                  ELSE [dev EXCEPT !.pc = "start", !.environ = load.environ,
                                   !.loaded = dev.file]
    /\ UNCHANGED <<clock, onceVars, cmdVars, apiVars, rateVars, ErrorsByType,
                   winVars, lockVars, pc, loc, ref, ret, calls, occurred,
                   rateWindow, lastCall, handling, shutdown>>

\* exec.Command, cmd.Env, cmd.Start() and the goroutine that waits
Dev_Start ==
    /\ dev.pc = "start"
    /\ \E started \in BOOLEAN :
          dev' = IF started
                 THEN [dev EXCEPT !.pc = "select", !.process = "running",
                                  !.cmdEnv = CmdEnv(dev.environ),
                                  !.done = <<>>, !.starts = @ + 1]
                 ELSE [dev EXCEPT !.pc = "returned", !.cause = "start failed",
                                  !.err = "failed to start bot"]
    /\ UNCHANGED <<clock, onceVars, cmdVars, apiVars, rateVars, ErrorsByType,
                   winVars, lockVars, pc, loc, ref, ret, calls, occurred,
                   rateWindow, lastCall, handling, shutdown>>

\* The bot process ends and the goroutine sends what cmd.Wait() returned.
Dev_Exit ==
    /\ dev.process = "running"
    /\ \E result \in WaitResults :
          dev' = [dev EXCEPT !.process = "exited", !.done = <<result>>]
    /\ UNCHANGED <<clock, onceVars, cmdVars, apiVars, rateVars, ErrorsByType,
                   winVars, lockVars, pc, loc, ref, ret, calls, occurred,
                   rateWindow, lastCall, handling, shutdown>>

\* A signal for Dev arrives; signal.Notify drops it when the channel is full.
Dev_Signal ==
    /\ dev.pc \notin {"off", "returned", "panicked"}
    /\ dev.sigChan = <<>>
    /\ \E sig \in Signals : dev' = [dev EXCEPT !.sigChan = <<sig>>]
    /\ UNCHANGED <<clock, onceVars, cmdVars, apiVars, rateVars, ErrorsByType,
                   winVars, lockVars, pc, loc, ref, ret, calls, occurred,
                   rateWindow, lastCall, handling, shutdown>>

\* Somebody writes the .env file.
Dev_EditFile ==
    /\ dev.pc \notin {"off", "returned", "panicked"}
    /\ \E file \in EnvFiles \ {dev.file} : dev' = [dev EXCEPT !.file = file]
    /\ UNCHANGED <<clock, onceVars, cmdVars, apiVars, rateVars, ErrorsByType,
                   winVars, lockVars, pc, loc, ref, ret, calls, occurred,
                   rateWindow, lastCall, handling, shutdown>>

\* case sig := <-sigChan: the signal is forwarded to the bot process
Dev_SelectSignal ==
    /\ dev.pc = "select"
    /\ dev.sigChan # <<>>
    /\ dev' = [dev EXCEPT !.pc = "forwarded", !.sigChan = <<>>,
                          !.cause = "signal"]
    /\ UNCHANGED <<clock, onceVars, cmdVars, apiVars, rateVars, ErrorsByType,
                   winVars, lockVars, pc, loc, ref, ret, calls, occurred,
                   rateWindow, lastCall, handling, shutdown>>

\* <-done after the signal was forwarded; return nil
Dev_Stopped ==
    /\ dev.pc = "forwarded"
    /\ dev.done # <<>>
    /\ dev' = [dev EXCEPT !.pc = "returned", !.done = <<>>, !.err = "nil"]
    /\ UNCHANGED <<clock, onceVars, cmdVars, apiVars, rateVars, ErrorsByType,
                   winVars, lockVars, pc, loc, ref, ret, calls, occurred,
                   rateWindow, lastCall, handling, shutdown>>

\* case err := <-done
Dev_SelectDone ==
    /\ dev.pc = "select"
    /\ dev.done # <<>>
    /\ LET err == dev.done[1]
       IN  dev' = IF err.kind = "nil"
                  THEN [dev EXCEPT !.pc = "returned", !.done = <<>>,
                                   !.cause = "clean exit", !.err = "nil"]
                  ELSE IF err.kind = "ExitError" /\ err.code = 1
                  THEN [dev EXCEPT !.pc = "returned", !.done = <<>>,
                                   !.cause = "exit code 1", !.err = "nil"]
                  ELSE [dev EXCEPT !.pc = "sleep", !.done = <<>>,
                                   !.restartCount = @ + 1]
    /\ UNCHANGED <<clock, onceVars, cmdVars, apiVars, rateVars, ErrorsByType,
                   winVars, lockVars, pc, loc, ref, ret, calls, occurred,
                   rateWindow, lastCall, handling, shutdown>>

\* time.Sleep(3 * time.Second) returns; the test of restartCount
Dev_Sleep ==
    /\ dev.pc = "sleep"
    /\ dev' = IF TooManyRestarts(dev.restartCount)
              THEN [dev EXCEPT !.pc = "returned", !.cause = "too many crashes",
                               !.err = "bot has crashed too many times"]
              ELSE [dev EXCEPT !.pc = "load"]
    /\ UNCHANGED <<clock, onceVars, cmdVars, apiVars, rateVars, ErrorsByType,
                   winVars, lockVars, pc, loc, ref, ret, calls, occurred,
                   rateWindow, lastCall, handling, shutdown>>

NextDev ==
    \/ Dev_Begin \/ Dev_Load \/ Dev_Start \/ Dev_Exit \/ Dev_Signal
    \/ Dev_EditFile \/ Dev_SelectSignal \/ Dev_Stopped \/ Dev_SelectDone
    \/ Dev_Sleep

\* ------------------------------------------------- main: gracefulShutdown
\* main before it runs.  main is the goroutine of main(), sigChan and done
\* are channels of capacity 1, expired says that ctx.Done() is closed,
\* routine is where the goroutine of lines 94-109 stands and goroutine the
\* one that runs it, stopped what bot.Stop() returned, snapshot whether
\* GetSummary was called, outcome the case the select took.
ShutdownOff ==
    [pc |-> "off", main |-> NIL, sigChan |-> <<>>, done |-> <<>>,
     expired |-> FALSE, routine |-> "none", goroutine |-> NIL,
     stopped |-> "none", snapshot |-> FALSE, outcome |-> "none"]

\* Mutant: the select has no case for ctx.Done().
SelectWithoutTimeout(s) == s.done # <<>>

\* The select of lines 112-117 has a case that can proceed.
SelectReady(s) == s.done # <<>> \/ s.expired

\* main: metrics.Initialize()
Main_Initialize(p) ==
    /\ shutdown.pc = "off"
    /\ Start(p, "once", [NoLoc EXCEPT !.op = "Initialize"])
    /\ shutdown' = [shutdown EXCEPT !.pc = "initialize", !.main = p]
    /\ UNCHANGED <<clock, onceVars, cmdVars, apiVars, rateVars, ErrorsByType,
                   winVars, lockVars, ref, calls, occurred, rateWindow,
                   lastCall, handling, dev>>

\* gracefulShutdown: signal.Notify, then main blocks in <-sigChan
SD_Notify ==
    /\ shutdown.pc = "initialize"
    /\ pc[shutdown.main] = "idle"
    /\ shutdown' = [shutdown EXCEPT !.pc = "wait"]
    /\ UNCHANGED <<clock, onceVars, cmdVars, apiVars, rateVars, ErrorsByType,
                   winVars, lockVars, pc, loc, ref, ret, calls, occurred,
                   rateWindow, lastCall, handling, dev>>

\* A signal arrives; signal.Notify drops it when the channel is full.
SD_Signal ==
    /\ shutdown.pc \in {"wait", "select", "sleep"}
    /\ shutdown.sigChan = <<>>
    /\ \E sig \in Signals : shutdown' = [shutdown EXCEPT !.sigChan = <<sig>>]
    /\ UNCHANGED <<clock, onceVars, cmdVars, apiVars, rateVars, ErrorsByType,
                   winVars, lockVars, pc, loc, ref, ret, calls, occurred,
                   rateWindow, lastCall, handling, dev>>

\* sig := <-sigChan; context.WithTimeout; done; go func()
SD_Received ==
    /\ shutdown.pc = "wait"
    /\ shutdown.sigChan # <<>>
    /\ shutdown' = [shutdown EXCEPT !.pc = "select", !.sigChan = <<>>,
                                    !.routine = "stop"]
    /\ UNCHANGED <<clock, onceVars, cmdVars, apiVars, rateVars, ErrorsByType,
                   winVars, lockVars, pc, loc, ref, ret, calls, occurred,
                   rateWindow, lastCall, handling, dev>>

\* bot.Stop() returns in the goroutine, with or without an error.
SD_Stop ==
    /\ shutdown.routine = "stop"
    /\ \E err \in {"nil", "error"} :
          shutdown' = [shutdown EXCEPT !.routine = "snapshot", !.stopped = err]
    /\ UNCHANGED <<clock, onceVars, cmdVars, apiVars, rateVars, ErrorsByType,
                   winVars, lockVars, pc, loc, ref, ret, calls, occurred,
                   rateWindow, lastCall, handling, dev>>

\* metricsSummary := metrics.Get().GetSummary() in the goroutine
SD_Snapshot(p) ==
    /\ shutdown.routine = "snapshot"
    /\ Start(p, "get", [NoLoc EXCEPT !.op = "GetSummary"])
    /\ shutdown' = [shutdown EXCEPT !.routine = "summary", !.goroutine = p,
                                    !.snapshot = TRUE]
    /\ UNCHANGED <<clock, onceVars, cmdVars, apiVars, rateVars, ErrorsByType,
                   winVars, lockVars, ref, calls, occurred, rateWindow,
                   lastCall, handling, dev>>

\* The goroutine returns: the deferred done <- true
SD_Cleanup ==
    /\ shutdown.routine = "summary"
    /\ pc[shutdown.goroutine] = "idle"
    /\ shutdown' = [shutdown EXCEPT !.routine = "finished",
                                    !.done = Append(@, TRUE)]
    /\ UNCHANGED <<clock, onceVars, cmdVars, apiVars, rateVars, ErrorsByType,
                   winVars, lockVars, pc, loc, ref, ret, calls, occurred,
                   rateWindow, lastCall, handling, dev>>

\* The timeout of ctx passes.
SD_Timeout ==
    /\ shutdown.pc = "select"
    /\ ~shutdown.expired
    /\ shutdown' = [shutdown EXCEPT !.expired = TRUE]
    /\ UNCHANGED <<clock, onceVars, cmdVars, apiVars, rateVars, ErrorsByType,
                   winVars, lockVars, pc, loc, ref, ret, calls, occurred,
                   rateWindow, lastCall, handling, dev>>

\* case <-done
SD_SelectDone ==
    /\ shutdown.pc = "select"
    /\ SelectReady(shutdown)
    /\ shutdown.done # <<>>
    /\ shutdown' = [shutdown EXCEPT !.pc = "sleep", !.done = <<>>,
                                    !.outcome = "completed"]
    /\ UNCHANGED <<clock, onceVars, cmdVars, apiVars, rateVars, ErrorsByType,
                   winVars, lockVars, pc, loc, ref, ret, calls, occurred,
                   rateWindow, lastCall, handling, dev>>

\* case <-ctx.Done()
SD_SelectTimeout ==
    /\ shutdown.pc = "select"
    /\ SelectReady(shutdown)
    /\ shutdown.expired
    /\ shutdown' = [shutdown EXCEPT !.pc = "sleep", !.outcome = "timeout"]
    /\ UNCHANGED <<clock, onceVars, cmdVars, apiVars, rateVars, ErrorsByType,
                   winVars, lockVars, pc, loc, ref, ret, calls, occurred,
                   rateWindow, lastCall, handling, dev>>

\* time.Sleep(100 * time.Millisecond), logging.LogShutdown(), return
SD_Return ==
    /\ shutdown.pc = "sleep"
    /\ shutdown' = [shutdown EXCEPT !.pc = "returned"]
    /\ UNCHANGED <<clock, onceVars, cmdVars, apiVars, rateVars, ErrorsByType,
                   winVars, lockVars, pc, loc, ref, ret, calls, occurred,
                   rateWindow, lastCall, handling, dev>>


\* ------------------------------------- a RateWindow used on its own
\* The times a RateWindow used on its own is given and is read at.
Stamps == {t \in 0..MaxStamp : t % StampStep = 0}

\* The durations a RateWindow is created with: a negative one, zero, and the
\* 60 seconds of Initialize.
WindowValues == {-StampStep, 0, WindowSeconds}

\* rw = NewRateWindow(window)
RW_New ==
    /\ \E window \in WindowValues :
          /\ rateWindow' = NewRateWindow(window)
          /\ lastCall' = [op |-> "New", timestamp |-> 0, now |-> 0,
                          before |-> <<>>, result |-> Zero]
    /\ UNCHANGED <<clock, onceVars, cmdVars, apiVars, rateVars, ErrorsByType,
                   winVars, lockVars, pc, loc, ref, ret, calls, occurred>>
    /\ UNCHANGED <<handling, dev, shutdown>>

\* rw.Add(timestamp)
RW_Add ==
    /\ Len(rateWindow.events) < MaxEvents
    /\ \E timestamp \in Stamps :
          /\ rateWindow' = Add(rateWindow, timestamp)
          /\ lastCall' = [op |-> "Add", timestamp |-> timestamp, now |-> 0,
                        before |-> rateWindow.events, result |-> Zero]
    /\ UNCHANGED <<clock, onceVars, cmdVars, apiVars, rateVars, ErrorsByType,
                   winVars, lockVars, pc, loc, ref, ret, calls, occurred>>
    /\ UNCHANGED <<handling, dev, shutdown>>

\* rw.Rate()
RW_Rate ==
    /\ \E t \in Stamps :
          /\ TimeNow(t)
          /\ lastCall' = [op |-> "Rate", timestamp |-> 0, now |-> t,
                          before |-> rateWindow.events,
                          result |-> Rate(rateWindow, t)]
    /\ UNCHANGED rateWindow
    /\ UNCHANGED <<onceVars, cmdVars, apiVars, rateVars, ErrorsByType,
                   winVars, lockVars, pc, loc, ref, ret, calls, occurred>>
    /\ UNCHANGED <<handling, dev, shutdown>>

\* ------------------------------------------- the errors package
\* &BotError{Type: type, Message: message, Cause: cause, Context: context};
\* StatusCode keeps its zero value.
BotError(type, message, cause, context) ==
    [Type |-> type, Message |-> message, Cause |-> cause, StatusCode |-> 0,
     Context |-> context]

NoContext == [k \in {} |-> 0]
NewNotFoundError(message) == BotError("not_found_error", message, NIL, NoContext)
NewRateLimitError(message, retryAfter) ==
    BotError("rate_limit_error", message, NIL,
             [k \in {"retry_after"} |-> retryAfter])
NewValidationError(message) ==
    BotError("validation_error", message, NIL, NoContext)
NewAPIError(message, cause) == BotError("api_error", message, cause, NoContext)
NewInternalError(message, cause) ==
    BotError("internal_error", message, cause, NoContext)

\* Mutant: the case of the range 400..499 comes first in the switch.
FromHTTPStatusRangeFirst(statusCode, message) ==
    IF statusCode >= 400 /\ statusCode < 500 THEN NewValidationError(message)
    ELSE IF statusCode = StatusNotFound THEN NewNotFoundError(message)
    ELSE IF statusCode = StatusTooManyRequests THEN NewRateLimitError(message, 0)
    ELSE IF statusCode >= 500 THEN NewAPIError(message, NIL)
    ELSE NewInternalError(message, NIL)

\* FromHTTPStatus: the first case of the switch that holds decides.
FromHTTPStatus(statusCode, message) ==
    IF statusCode = StatusNotFound THEN NewNotFoundError(message)
    ELSE IF statusCode = StatusTooManyRequests THEN NewRateLimitError(message, 0)
    ELSE IF statusCode >= 400 /\ statusCode < 500 THEN NewValidationError(message)
    ELSE IF statusCode >= 500 THEN NewAPIError(message, NIL)
    ELSE NewInternalError(message, NIL)

\* The status codes and messages FromHTTPStatus is called with.
StatusCodes == (-MaxNegativeStatus)..MaxStatusCode
Messages == {"", "status"}

\* errors.FromHTTPStatus(statusCode, message)
HTTP_FromStatus ==
    /\ \E statusCode \in StatusCodes, message \in Messages :
          lastCall' = [op |-> "FromHTTPStatus", statusCode |-> statusCode,
                       message |-> message,
                       result |-> FromHTTPStatus(statusCode, message)]
    /\ UNCHANGED <<clock, onceVars, cmdVars, apiVars, rateVars, ErrorsByType,
                   winVars, lockVars, pc, loc, ref, ret, calls, occurred,
                   rateWindow>>
    /\ UNCHANGED <<handling, dev, shutdown>>

\* ----------------------------------------------------- specifications
Init ==
    /\ clock = 0
    /\ globalMetrics = NIL /\ onceState = "fresh" /\ constructions = 0
    /\ CommandsTotal = 0 /\ CommandsSuccessful = 0 /\ CommandsFailed = 0
    /\ CommandsPerSecond = Zero
    /\ APIRequestsTotal = 0 /\ APIRequestsSuccessful = 0
    /\ APIRequestsFailed = 0 /\ APIRequestsPerSecond = Zero
    /\ APIResponseTimeSum = 0 /\ APIResponseCount = 0
    /\ ErrorsByType = EmptyErrors
    /\ BotStartTime = 0
    /\ commandWindow = NewRateWindow(WindowSeconds)
    /\ apiWindow = NewRateWindow(WindowSeconds)
    /\ rwWriter = NIL /\ rwReaders = {}
    /\ pc = [p \in Procs |-> "idle"]
    /\ loc = [p \in Procs |-> NoLoc]
    /\ ref = [p \in Procs |-> NIL]
    /\ ret = [p \in Procs |-> NoRet]
    /\ calls = [total |-> 0, reads |-> 0, commandsOK |-> 0, commandsFailed |-> 0,
                overlapCommands |-> FALSE, overlapAPI |-> FALSE,
                latencies |-> {}, errors |-> EmptyErrors,
                errorAfterSummary |-> FALSE,
                lastCmdRate |-> Zero, lastAPIRate |-> Zero]
    /\ occurred = {}
    /\ rateWindow = NewRateWindow(WindowSeconds)
    /\ lastCall = [op |-> "none", timestamp |-> 0, now |-> 0, before |-> <<>>,
                 result |-> Zero]
    /\ handling = [p \in Procs |-> NoMessage]
    /\ dev = DevOff
    /\ shutdown = ShutdownOff

\* The steps of Get and Initialize.
SingletonSteps(p) ==
    GetLoad(p) \/ OnceEnter(p) \/ Construct(p) \/ OnceDone(p)

CommandSteps(p) ==
    \/ IC_Now(p) \/ IC_Lock(p) \/ IC_Total(p) \/ IC_Branch(p) \/ IC_Add(p)
    \/ IC_Rate(p) \/ IC_Store(p)

APISteps(p) ==
    \/ IA_Now(p) \/ IA_Total(p) \/ IA_Rest(p) \/ IA_Add(p)
    \/ IA_Rate(p) \/ IA_Store(p)

SummarySteps(p) ==
    \/ GS_Errors(p) \/ GS_CmdTotal(p) \/ GS_Cmd(p) \/ GS_APITotal(p)
    \/ GS_API(p)

ErrorSteps(p) == IE_Lock(p) \/ IE_Inc(p)

RateGetterSteps(p) ==
    GR_Total(p) \/ GR_Succ(p) \/ GP_Total(p) \/ GP_Succ(p)

\* Goroutines that call Get and Initialize.
NextSingleton ==
    \E p \in Procs : CallGet(p) \/ CallInitialize(p) \/ SingletonSteps(p)

SpecSingleton == Init /\ [][NextSingleton]_vars

\* Goroutines that record commands and API requests while others read.
Next ==
    \E p \in Procs :
        \/ CallRecordCommand(p) \/ CallRecordAPIRequest(p, BOOLEAN, TypicalLatency)
        \/ CallGetSummary(p)
        \/ CallGetter(p, {"GetSuccessRate", "GetAPISuccessRate"})
        \/ SingletonSteps(p) \/ CommandSteps(p) \/ APISteps(p)
        \/ SummarySteps(p) \/ RateGetterSteps(p)

Spec == Init /\ [][Next]_vars

\* Goroutines of the session that run messageCreate, one message each at a
\* time.
NextDispatch ==
    \E p \in Procs :
        \/ MC_Receive(p) \/ MC_Stats(p) \/ MC_Handler(p)
        \/ MC_RecordCommand(p) \/ MC_RecordError(p) \/ MC_SendError(p)
        \/ MC_Return(p)
        \/ SingletonSteps(p) \/ CommandSteps(p) \/ ErrorSteps(p)
        \/ SummarySteps(p)

SpecDispatch == Init /\ [][NextDispatch]_vars

SpecDev == Init /\ [][NextDev]_vars

\* main initializes the registry and waits in gracefulShutdown.
NextShutdown ==
    \/ SD_Notify \/ SD_Signal \/ SD_Received \/ SD_Stop \/ SD_Cleanup
    \/ SD_Timeout \/ SD_SelectDone \/ SD_SelectTimeout \/ SD_Return
    \/ \E p \in Procs :
          \/ Main_Initialize(p) \/ SD_Snapshot(p)
          \/ SingletonSteps(p) \/ SummarySteps(p)

\* The timer of the context fires, and main runs when it can; nothing makes
\* bot.Stop() return.
SpecShutdown ==
    /\ Init /\ [][NextShutdown]_vars
    /\ WF_vars(SD_Timeout)
    /\ WF_vars(SD_SelectDone \/ SD_SelectTimeout \/ SD_Return)

\* Every step of a call that goroutine p has begun.
StepsOf(p) ==
    \/ SingletonSteps(p) \/ CommandSteps(p) \/ APISteps(p) \/ SummarySteps(p)
    \/ ErrorSteps(p) \/ RateGetterSteps(p) \/ GA_Sum(p) \/ GA_Count(p)

\* Goroutines that make FairOps calls of any operation of the registry.
NextFair ==
    \E p \in Procs :
        \/ /\ calls.total < FairOps
           /\ \/ CallRecordCommand(p)
              \/ CallRecordAPIRequest(p, BOOLEAN, TypicalLatency)
              \/ CallRecordError(p, ErrValues) \/ CallGetSummary(p)
              \/ CallGetter(p, {"GetSuccessRate", "GetAPISuccessRate",
                                "GetAverageResponseTime"})
        \/ StepsOf(p)

\* The Go scheduler runs every runnable goroutine again: a goroutine whose
\* next step stays possible takes it.
SpecFair ==
    Init /\ [][NextFair]_vars /\ \A p \in Procs : WF_vars(StepsOf(p))

\* Goroutines that record commands, API requests and errors while others take
\* summaries.
NextErrors ==
    \E p \in Procs :
        \/ CallRecordCommand(p) \/ CallRecordAPIRequest(p, BOOLEAN, TypicalLatency)
        \/ CallRecordError(p, ErrValues) \/ CallGetSummary(p)
        \/ SingletonSteps(p) \/ CommandSteps(p) \/ APISteps(p) \/ ErrorSteps(p)
        \/ SummarySteps(p)

SpecErrors == Init /\ [][NextErrors]_vars

\* Goroutines that record API requests of a negative and of a positive
\* latency while others read the average response time.
NextLatency ==
    \E p \in Procs :
        \/ CallRecordAPIRequest(p, BOOLEAN, LatencyValues)
        \/ CallGetter(p, {"GetAverageResponseTime"})
        \/ SingletonSteps(p) \/ APISteps(p) \/ GA_Sum(p) \/ GA_Count(p)

SpecLatency == Init /\ [][NextLatency]_vars

\* Goroutines that record successful API requests of the latencies 10, 20 and
\* 30 while a reader takes the average response time.
NextAverage ==
    \E p \in Procs :
        \/ CallRecordAPIRequest(p, {TRUE}, AverageLatencies)
        \/ CallGetAverageResponseTime(p)
        \/ SingletonSteps(p) \/ APISteps(p) \/ GA_Sum(p) \/ GA_Count(p)

SpecAverage == Init /\ [][NextAverage]_vars

\* Goroutines that record error values of every shape.
NextClassify ==
    \E p \in Procs :
        \/ CallRecordError(p, ErrChains)
        \/ SingletonSteps(p) \/ ErrorSteps(p) \/ IE_Panic(p)

SpecClassify == Init /\ [][NextClassify]_vars

\* Goroutines that obtain the registry and take summaries, and record nothing.
NextFresh ==
    \E p \in Procs :
        \/ CallGet(p) \/ CallInitialize(p) \/ CallGetSummary(p)
        \/ SingletonSteps(p) \/ SummarySteps(p)

SpecFresh == Init /\ [][NextFresh]_vars

\* Calls of FromHTTPStatus.
SpecHTTP == Init /\ [][HTTP_FromStatus]_vars

\* One RateWindow and its clock.
SpecRW == Init /\ [][RW_New \/ RW_Add \/ RW_Rate]_vars

\* ====================================================== the claims
Summaries == {p \in Procs : ret[p].kind = "GetSummary"}

\* C1: whenever the registry lock is in a state in which a reader holds it or
\* could take it, and in every Summary read under it, CommandsTotal equals
\* CommandsSuccessful + CommandsFailed.
C1_TotalIsSum ==
    /\ (rwWriter = NIL \/ rwReaders # {})
          => CommandsTotal = CommandsSuccessful + CommandsFailed
    /\ \A p \in Summaries :
          ret[p].value.CommandsTotal =
              ret[p].value.CommandsSuccessful + ret[p].value.CommandsFailed

\* A reader is inside its critical section while a writer waits for the lock,
\* after a command has been counted.
C1_Witness ==
    \E p, q \in Procs :
        /\ pc[p] \in {"gs_cmd", "gr_succ"}
        /\ pc[q] = "ic_lock"
        /\ CommandsTotal >= 1

\* C2: once every RecordCommand call issued has returned, the counters equal
\* the numbers of calls issued: none is lost.
C2_NoLostUpdate ==
    InFlight("RecordCommand") = {}
        => /\ CommandsTotal = calls.commandsOK + calls.commandsFailed
           /\ CommandsSuccessful = calls.commandsOK
           /\ CommandsFailed = calls.commandsFailed

\* Calls of both outcomes that overlapped in time have all returned.
C2_Witness ==
    /\ InFlight("RecordCommand") = {}
    /\ calls.overlapCommands
    /\ calls.commandsOK >= 1
    /\ calls.commandsFailed >= 1
    /\ CommandsTotal >= 2

\* C3: no Summary reports succeeded + failed > total, for commands or for
\* API requests.
C3_NeverMoreThanTotal ==
    \A p \in Summaries :
        /\ ret[p].value.CommandsSuccessful + ret[p].value.CommandsFailed
              <= ret[p].value.CommandsTotal
        /\ ret[p].value.APIRequestsSuccessful + ret[p].value.APIRequestsFailed
              <= ret[p].value.APIRequestsTotal

\* A Summary that counts a command has been returned while another goroutine
\* is still inside RecordAPIRequest, or the other way round.
C3_Witness ==
    \E p \in Summaries, q \in Procs :
        \/ /\ ret[p].value.CommandsTotal >= 1
           /\ pc[q] \in {"ia_lock", "ia_rest", "ia_add", "ia_rate", "ia_store"}
           /\ calls.total = MaxOps
        \/ /\ ret[p].value.APIRequestsTotal >= 1
           /\ pc[q] \in {"ic_lock", "ic_total", "ic_branch", "ic_add"}
           /\ calls.total = MaxOps

\* A float64 percentage within [0, 100].
InPercentRange(r) == r.den > 0 /\ 0 <= r.num /\ r.num <= 100 * r.den

\* C4: every success rate returned, in a Summary or by GetSuccessRate or
\* GetAPISuccessRate, lies in [0, 100], and is 0 when its total is 0.
C4_RatesInRange ==
    /\ \A p \in Summaries :
          /\ InPercentRange(ret[p].value.CommandSuccessRate)
          /\ InPercentRange(ret[p].value.APISuccessRate)
          /\ ret[p].value.CommandsTotal = 0
                => ret[p].value.CommandSuccessRate.num = 0
          /\ ret[p].value.APIRequestsTotal = 0
                => ret[p].value.APISuccessRate.num = 0
    /\ \A p \in Procs :
          ret[p].kind \in {"GetSuccessRate", "GetAPISuccessRate"}
              => /\ InPercentRange(ret[p].value)
                 /\ ret[p].total = 0 => ret[p].value.num = 0

\* A getter has returned a rate strictly between 0 and 100 while a writer of
\* the same counters is in flight.
C4_Witness ==
    \E p, q \in Procs :
        /\ ret[p].kind \in {"GetSuccessRate", "GetAPISuccessRate"}
        /\ ret[p].value.num > 0
        /\ ret[p].value.num < 100 * ret[p].value.den
        /\ loc[q].op \in {"RecordCommand", "RecordAPIRequest"}

\* The values of s that a Summary carries.
SameCounters(s, summary) ==
    /\ s.CommandsTotal = summary.CommandsTotal
    /\ s.CommandsSuccessful = summary.CommandsSuccessful
    /\ s.CommandsFailed = summary.CommandsFailed
    /\ s.APIRequestsTotal = summary.APIRequestsTotal
    /\ s.APIRequestsSuccessful = summary.APIRequestsSuccessful
    /\ s.APIRequestsFailed = summary.APIRequestsFailed
    /\ Average(s.APIResponseTimeSum, s.APIResponseCount)
          = summary.AverageResponseTime

SameErrors(s, summary) == s.ErrorsByType = MapEntries(summary.ErrorsByType)

\* s is a registry state no later than u: no counter of s exceeds u's.
NotAfter(s, u) ==
    /\ s.CommandsTotal <= u.CommandsTotal
    /\ s.APIRequestsTotal <= u.APIRequestsTotal
    /\ DOMAIN s.ErrorsByType \subseteq DOMAIN u.ErrorsByType
    /\ \A t \in DOMAIN s.ErrorsByType : s.ErrorsByType[t] <= u.ErrorsByType[t]

\* C5 as claimed: every Summary equals, in its counters, its average and its
\* error mapping, one registry state that occurred.
C5_SingleInstant ==
    \A p \in Summaries :
        \E s \in occurred : SameCounters(s, ret[p].value) /\ SameErrors(s, ret[p].value)

\* C5 amended: the counters and the average of every Summary are those of one
\* registry state that occurred with no writer inside its critical section,
\* and its error mapping is that of such a state which is the same or earlier.
C5_TwoInstants ==
    \A p \in Summaries :
        \E s, u \in occurred :
            /\ ~s.locked /\ ~u.locked
            /\ SameErrors(s, ret[p].value)
            /\ SameCounters(u, ret[p].value)
            /\ NotAfter(s, u)

\* A Summary whose error mapping and counters were never the registry's at
\* one time: an error and then a command were recorded between its two
\* critical sections.
C5_Witness ==
    \E p \in Summaries :
        /\ ret[p].value.CommandsTotal >= 1
        /\ \A s \in occurred :
              ~(SameCounters(s, ret[p].value) /\ SameErrors(s, ret[p].value))

\* C6: the Metrics value is constructed at most once; every Get and Initialize
\* returns that one instance, never nil, and every caller finds the same
\* BotStartTime in it, which is the one it still holds.
C6_OneInstance ==
    /\ constructions <= 1
    /\ \A p \in Procs :
          ret[p].kind = "ref"
              => /\ ret[p].ref # NIL
                 /\ ret[p].ref = globalMetrics
                 /\ constructions = 1
                 /\ ret[p].startTime = BotStartTime

\* Two goroutines raced for the first access: one constructed, the other saw
\* nil and went through Initialize too, and both hold the instance.
C6_Witness ==
    \E p, q \in Procs :
        /\ p # q
        /\ ret[p].kind = "ref" /\ ret[q].kind = "ref"
        /\ calls.total = 2
        /\ BotStartTime > 0

Sorted(events) ==
    \A i, j \in 1..Len(events) : i < j => events[i] <= events[j]

\* C10 as claimed: the events of both windows are in chronological order in
\* every reachable state.
C10_Chronological ==
    Sorted(commandWindow.events) /\ Sorted(apiWindow.events)

\* C10 amended: the events of a window are in chronological order as long as
\* no call that records into that window began while another one was in
\* flight.
C10_ChronologicalUnlessOverlap ==
    /\ ~calls.overlapCommands => Sorted(commandWindow.events)
    /\ ~calls.overlapAPI => Sorted(apiWindow.events)

\* Two calls that did not overlap have left two different timestamps.
C10_Witness ==
    /\ ~calls.overlapCommands
    /\ Len(commandWindow.events) >= 2
    /\ commandWindow.events[1] < commandWindow.events[2]

\* ------------------------------------------- claims about a RateWindow
\* events keeps, in their order, exactly the entries of all whose index is
\* in kept.
KeepsInOrder(events, all, kept) ==
    /\ Len(events) = Cardinality(kept)
    /\ \A k \in 1..Len(events) :
          \E i \in kept :
              /\ Cardinality({j \in kept : j <= i}) = k
              /\ events[k] = all[i]

AfterAdd == lastCall.op = "Add"
Recorded == Append(lastCall.before, lastCall.timestamp)

\* C7 as claimed: Add(ts) appends ts and removes exactly the entries older
\* than ts - W, keeping every other entry; so the window holds no more entries
\* than were recorded within W of ts.
C7_RemovesExactlyOlder ==
    AfterAdd =>
        /\ KeepsInOrder(rateWindow.events, Recorded,
               {i \in 1..Len(Recorded) :
                   ~(Recorded[i] < lastCall.timestamp - rateWindow.window)})
        /\ Len(rateWindow.events)
              <= Cardinality({i \in 1..Len(Recorded) :
                     Recorded[i] >= lastCall.timestamp - rateWindow.window})

\* C7 amended: Add(ts) appends ts and removes exactly the entries that are not
\* newer than ts - W (an entry exactly W old goes too), keeping every other
\* entry in its place; so the window holds no more entries than were recorded
\* less than W before ts.
C7_RemovesNotNewer ==
    AfterAdd =>
        /\ KeepsInOrder(rateWindow.events, Recorded,
               {i \in 1..Len(Recorded) :
                   Recorded[i] > lastCall.timestamp - rateWindow.window})
        /\ Len(rateWindow.events)
              <= Cardinality({i \in 1..Len(Recorded) :
                     Recorded[i] > lastCall.timestamp - rateWindow.window})

\* An Add that found an entry exactly W old, removed it, and kept another.
C7_Witness ==
    /\ AfterAdd
    /\ \E i \in 1..Len(lastCall.before) :
          lastCall.before[i] = lastCall.timestamp - rateWindow.window
    /\ Len(rateWindow.events) >= 2
    /\ Len(rateWindow.events) < Len(Recorded)

AfterRate == lastCall.op = "Rate"
Newer == {i \in 1..Len(lastCall.before) :
             lastCall.before[i] > lastCall.now - rateWindow.window}

\* C8: Rate() returns the number of entries newer than now - W divided by W in
\* seconds, 0.0 when there is none; one event read at once gives 1/60, and
\* events all more than W = 60s old give 0.0.
C8_RateIsCountOverWindow ==
    AfterRate =>
        /\ RatEq(lastCall.result, Rat(Cardinality(Newer), rateWindow.window))
        /\ Newer = {} => lastCall.result.num = 0
        /\ (Len(lastCall.before) = 1 /\ lastCall.before[1] = lastCall.now)
              => RatEq(lastCall.result, Rat(1, 60))
        /\ (\A i \in 1..Len(lastCall.before) :
               lastCall.now - lastCall.before[i] > 60)
              => RatEq(lastCall.result, Zero)

\* Rate() has counted one entry and passed over an expired one.
C8_Witness ==
    /\ AfterRate
    /\ Cardinality(Newer) = 1
    /\ \E i \in 1..Len(lastCall.before) :
          lastCall.now - lastCall.before[i] > rateWindow.window
    /\ RatEq(lastCall.result, Rat(1, 60))

\* C9 as claimed: when Rate() has returned, the window retains no timestamp
\* older than W at the time of that call.
C9_RateEvicts ==
    AfterRate =>
        \A i \in 1..Len(rateWindow.events) :
            lastCall.now - rateWindow.events[i] <= rateWindow.window

\* C11 as claimed: no RateWindow has a window duration W <= 0.
C11_WindowPositive == rateWindow.window > 0

\* C11 amended: a RateWindow made with W <= 0 keeps that W, and it never
\* retains an event, so Rate() returns 0.0 before it reaches the division by
\* the window's seconds.
C11_NeverDividesByNonPositive ==
    rateWindow.window <= 0
        => /\ rateWindow.events = <<>>
           /\ AfterRate => lastCall.result = Zero

\* Add has been called on a window of zero length, which dropped the event it
\* was given.
C11_Witness ==
    /\ rateWindow.window = 0
    /\ AfterAdd
    /\ lastCall.timestamp > 0
    /\ rateWindow.events = <<>>

\* ------------------------------------- claims about the recorded latency
\* p takes the step of IncrementAPIRequests that adds the response time.
AddsResponseTime(p) == pc[p] = "ia_rest" /\ pc'[p] = "ia_add"

\* C12 as claimed: a RecordAPIRequest with a negative response time adds one
\* to the request counters and to APIResponseCount, leaves APIResponseTimeSum
\* as it was, and returns.
C12_NegativeClamped ==
    [][\A p \in Procs :
          (AddsResponseTime(p) /\ loc[p].ms < 0)
              => /\ APIResponseTimeSum' = APIResponseTimeSum
                 /\ APIResponseCount' = APIResponseCount + 1
                 /\ APIRequestsSuccessful' + APIRequestsFailed'
                       = APIRequestsSuccessful + APIRequestsFailed + 1]_vars

\* No cumulative counter is negative.
CountersNonNegative ==
    /\ CommandsTotal >= 0 /\ CommandsSuccessful >= 0 /\ CommandsFailed >= 0
    /\ APIRequestsTotal >= 0 /\ APIRequestsSuccessful >= 0
    /\ APIRequestsFailed >= 0
    /\ APIResponseTimeSum >= 0 /\ APIResponseCount >= 0
    /\ \A t \in DOMAIN ErrorsByType : ErrorsByType[t] >= 0

\* No cumulative counter is smaller after a step than before it.
CountersNotDecreased ==
    /\ CommandsTotal' >= CommandsTotal
    /\ CommandsSuccessful' >= CommandsSuccessful
    /\ CommandsFailed' >= CommandsFailed
    /\ APIRequestsTotal' >= APIRequestsTotal
    /\ APIRequestsSuccessful' >= APIRequestsSuccessful
    /\ APIRequestsFailed' >= APIRequestsFailed
    /\ APIResponseTimeSum' >= APIResponseTimeSum
    /\ APIResponseCount' >= APIResponseCount
    /\ \A t \in DOMAIN ErrorsByType :
          CountOf(ErrorsByType', t) >= ErrorsByType[t]

\* C13 as claimed: every cumulative counter is non-negative in every state
\* and no step of any operation makes one smaller.
C13_Monotone == []CountersNonNegative /\ [][CountersNotDecreased]_vars

\* The averages GetAverageResponseTime has returned.
Averages == {p \in Procs : ret[p].kind = "GetAverageResponseTime"}

\* C18: every value GetAverageResponseTime returns is APIResponseTimeSum /
\* APIResponseCount of one registry state that occurred with no writer inside
\* its critical section, it is 0.0 (and no quotient by zero) when that count
\* is 0, and it is 20 when exactly the latencies 10, 20 and 30 were recorded.
C18_AverageOfOneInstant ==
    \A p \in Averages :
        /\ \E s \in occurred :
              /\ ~s.locked
              /\ ret[p].value = Average(s.APIResponseTimeSum, s.APIResponseCount)
              /\ s.APIResponseCount = 0 => ret[p].value = Zero
        /\ ret[p].value.den # 0
        /\ (calls.total = 3 /\ calls.latencies = {10, 20, 30}
               /\ ret[p].value.den = 3)
              => RatEq(ret[p].value, Rat(20, 1))

\* The latencies 10, 20 and 30 were recorded, by calls that overlapped, and the
\* average read after them is 20.
C18_Witness ==
    \E p \in Averages :
        /\ calls.total = 3 /\ calls.latencies = {10, 20, 30}
        /\ calls.overlapAPI
        /\ APIResponseCount = 3
        /\ ret[p].value = Rat(60, 3)

\* ------------------------------------- claims about the rates of a Summary
\* p takes the step of GetSummary that reads m.CommandsPerSecond, and the
\* step that reads m.APIRequestsPerSecond and returns the Summary.
ReadsCommandRate(p) == pc[p] = "gs_cmd" /\ pc'[p] = "gs_apitotal"
ReturnsSummary(p) == pc[p] = "gs_api" /\ pc'[p] = "idle"

\* No call that records into the window is in flight, and none overlapped
\* with another.
QuietCommands == InFlight("RecordCommand") = {} /\ ~calls.overlapCommands
QuietAPI == InFlight("RecordAPIRequest") = {} /\ ~calls.overlapAPI

\* C14 as claimed: the two rates of a Summary returned while no record call is
\* in flight are the rates of the two windows at the time of the snapshot.
C14_CurrentRates ==
    [][\A p \in Procs :
          (ReturnsSummary(p) /\ QuietCommands /\ QuietAPI)
              => /\ RatEq(ret'[p].value.CommandsPerSecond,
                          Rate(commandWindow, clock'))
                 /\ RatEq(ret'[p].value.APIRequestsPerSecond,
                          Rate(apiWindow, clock'))]_vars

\* C14 amended: the two rates of a Summary are the cached fields as the
\* snapshot finds them; with no record call in flight and none overlapped,
\* each is the value the latest Rate() of a record call on that window
\* returned, at the time of that call, and 0.0 before any.
C14_CachedRates ==
    [][\A p \in Procs :
          /\ ReadsCommandRate(p)
                => /\ loc'[p].summary.CommandsPerSecond = CommandsPerSecond
                   /\ QuietCommands => CommandsPerSecond = calls.lastCmdRate
          /\ ReturnsSummary(p)
                => /\ ret'[p].value.CommandsPerSecond
                         = loc[p].summary.CommandsPerSecond
                   /\ ret'[p].value.APIRequestsPerSecond = APIRequestsPerSecond
                   /\ QuietAPI => APIRequestsPerSecond = calls.lastAPIRate]_vars

\* A Summary taken more than W after the only command recorded reports 1/60
\* where the window's rate is 0.0.
C14_Witness ==
    \E p \in Summaries :
        /\ QuietCommands
        /\ ret[p].value.UptimeSeconds > WindowSeconds
        /\ ret[p].value.CommandsTotal = 1
        /\ commandWindow.events = <<0>>
        /\ ret[p].value.CommandsPerSecond = Rat(1, 60)
        /\ Rate(commandWindow, clock) = Rat(0, 60)

\* ------------------------------------- claims about the error counts
\* p takes the step of IncrementError that writes the count.
IncrementsError(p) == pc[p] = "ie_inc" /\ pc'[p] = "idle"

\* Every category has been counted as often as calls for it were issued.
ErrorsAsIssued ==
    \A t \in ErrorTypes : CountOf(ErrorsByType, t) = CountOf(calls.errors, t)

\* C15: IncrementError(category) adds 1 to the count of that category, a
\* missing one counting as 0, and changes no other category and no other
\* counter; and once every RecordError issued has returned, each category has
\* been counted exactly as often as it was recorded.
C15_ExactlyThatCategory ==
    /\ [](InFlight("RecordError") = {} => ErrorsAsIssued)
    /\ [][\A p \in Procs :
             IncrementsError(p)
                 => /\ CountOf(ErrorsByType', loc[p].errorType)
                          = CountOf(ErrorsByType, loc[p].errorType) + 1
                    /\ \A t \in ErrorTypes \ {loc[p].errorType} :
                          CountOf(ErrorsByType', t) = CountOf(ErrorsByType, t)
                    /\ DOMAIN ErrorsByType'
                          = DOMAIN ErrorsByType \cup {loc[p].errorType}
                    /\ UNCHANGED <<cmdVars, apiVars>>]_vars

\* Three RecordError calls have returned: two for one category, one for
\* another, and the other categories are still absent.
C15_Witness ==
    /\ InFlight("RecordError") = {}
    /\ calls.total = 3
    /\ \E t, u \in ErrorTypes :
          /\ t # u
          /\ CountOf(ErrorsByType, t) = 2
          /\ CountOf(ErrorsByType, u) = 1
          /\ DOMAIN ErrorsByType = {t, u}

\* C16 as claimed: every RecordError(err) returns, having counted the category
\* the error value carries, or internal when it carries none, once.
C16_ClassifierTotal ==
    /\ \A p \in Procs :
          /\ ret[p].kind # Panic
          /\ ret[p].kind = "RecordError"
                => ret[p].errorType = Tagged(ret[p].err)
    /\ InFlight("RecordError") = {} => ErrorsAsIssued

\* ------------------------------------- claims about FromHTTPStatus
AfterFromHTTPStatus == lastCall.op = "FromHTTPStatus"

\* The category the claim gives a status code.
StatusCategory(statusCode) ==
    CASE statusCode = 404 -> "not_found_error"
      [] statusCode = 429 -> "rate_limit_error"
      [] statusCode \in (400..499) \ {404, 429} -> "validation_error"
      [] statusCode >= 500 -> "api_error"
      [] statusCode < 400 -> "internal_error"

\* C17: FromHTTPStatus gives every status code one category: not_found for
\* 404, rate_limit for 429, validation for the rest of 400..499, api from 500
\* on and internal below 400, zero and negative codes included; the message
\* has no part in it.
C17_StatusCategory ==
    AfterFromHTTPStatus
        => /\ lastCall.result.Type = StatusCategory(lastCall.statusCode)
           /\ lastCall.result.Type \in ErrorTypes
           /\ lastCall.result.Message = lastCall.message

\* FromHTTPStatus(404, ...) has returned a not_found error.
C17_Witness ==
    /\ AfterFromHTTPStatus
    /\ lastCall.statusCode = 404
    /\ lastCall.result.Type = "not_found_error"

\* ------------------------------------- claims about a Summary as a value
\* A float64 that is 0.0: a quotient of zero by a divisor that is not zero.
IsZero(r) == r.num = 0 /\ r.den # 0

\* C19: as long as nothing has been recorded, every Summary has all counters
\* 0, both rates 0.0, both success rates 0.0, the average 0.0 and an empty
\* error mapping, and no quotient in it has a zero divisor.
C19_FreshSummaryIsZero ==
    \A p \in Summaries :
        LET s == ret[p].value
        IN  /\ s.CommandsTotal = 0 /\ s.CommandsSuccessful = 0
            /\ s.CommandsFailed = 0
            /\ s.APIRequestsTotal = 0 /\ s.APIRequestsSuccessful = 0
            /\ s.APIRequestsFailed = 0
            /\ IsZero(s.CommandsPerSecond) /\ IsZero(s.APIRequestsPerSecond)
            /\ IsZero(s.CommandSuccessRate) /\ IsZero(s.APISuccessRate)
            /\ IsZero(s.AverageResponseTime)
            /\ \A t \in ErrorTypes : CountOf(MapEntries(s.ErrorsByType), t) = 0

\* Two goroutines hold a Summary of the registry that one of them made, some
\* time after its construction.
C19_Witness ==
    /\ constructions = 1
    /\ \A p \in Procs : p \in Summaries /\ ref[p] = globalMetrics
    /\ \E p \in Summaries : ret[p].value.UptimeSeconds > 0

\* A Summary as its holder reads it.
Observed(p) == [ret[p].value EXCEPT !.ErrorsByType = MapEntries(@)]

\* C20: no step changes what a Summary that has been returned reads as,
\* whatever is recorded after it.
C20_SummaryUnchanged ==
    [][\A p \in Procs :
          (ret[p].kind = "GetSummary" /\ ret'[p].kind = "GetSummary")
              => Observed(p)' = Observed(p)]_vars

\* An error was recorded after a Summary had been returned, and the Summary
\* still reads as it did: the registry counts an error that it does not.
C20_Witness ==
    /\ calls.errorAfterSummary
    /\ \E p \in Summaries, q \in Procs :
          /\ ret[q].kind = "RecordError"
          /\ CountOf(MapEntries(ret[p].value.ErrorsByType), ret[q].errorType)
                < CountOf(ErrorsByType, ret[q].errorType)

\* ------------------------------------- claims about the API counters
\* C22: whenever the registry lock is in a state in which a reader holds it
\* or could take it, and in every Summary read under it, APIRequestsTotal
\* equals APIRequestsSuccessful + APIRequestsFailed, and in the registry it
\* equals APIResponseCount too.
C22_APICountersAgree ==
    /\ (rwWriter = NIL \/ rwReaders # {})
          => /\ APIRequestsTotal = APIRequestsSuccessful + APIRequestsFailed
             /\ APIRequestsTotal = APIResponseCount
    /\ \A p \in Summaries :
          ret[p].value.APIRequestsTotal =
              ret[p].value.APIRequestsSuccessful + ret[p].value.APIRequestsFailed

\* A reader is inside its critical section while a writer of the API counters
\* waits for the lock, after a request has been counted.
C22_Witness ==
    \E p, q \in Procs :
        /\ pc[p] \in {"gs_cmd", "gs_apitotal", "gs_api", "gp_succ"}
        /\ pc[q] = "ia_lock"
        /\ APIRequestsTotal >= 1

\* ------------------------------------- claims about the cached rate
\* Every entry of the window is within W of the latest clock reading.
NoneExpired(rw) ==
    \A i \in 1..Len(rw.events) : clock - rw.events[i] < rw.window

\* C23 as claimed: whenever no RecordCommand is in flight and no entry of the
\* command window has expired, CommandsPerSecond is the number of entries of
\* the window over W.
C23_CacheConverges ==
    (InFlight("RecordCommand") = {} /\ NoneExpired(commandWindow))
        => RatEq(CommandsPerSecond,
                 Rat(Len(commandWindow.events), commandWindow.window))

\* ------------------------------------- claims about eviction
\* How often t occurs in events.
Occurrences(events, t) == Cardinality({i \in 1..Len(events) : events[i] = t})

\* No step takes from rw an entry that is within W of the clock after it.
KeepsCurrent(rw) ==
    \A i \in 1..Len(rw.events) :
        clock' - rw.events[i] < rw.window
            => Occurrences(rw'.events, rw.events[i])
                  >= Occurrences(rw.events, rw.events[i])

\* A step that leaves label is the Add of one more entry now to rw.
Records(label, rw) ==
    \A p \in Procs :
        (pc[p] = label /\ pc'[p] # label)
            => Occurrences(rw'.events, loc[p].now)
                  = Occurrences(rw.events, loc[p].now) + 1

\* The entries of rw within W of now are as many as Rate() counts.
CountsCurrent(rw) ==
    Rate(rw, clock).num
        = Cardinality({i \in 1..Len(rw.events) :
                          clock - rw.events[i] < rw.window})

\* C25: no step of a record removes from either window an entry that is
\* within the trailing W of the current time, in whatever order concurrent
\* recorders insert; every Add leaves its own entry in the window; and Rate()
\* at the current time counts each entry that is within the trailing W.
C25_KeepsCurrentEntries ==
    /\ [][KeepsCurrent(commandWindow) /\ KeepsCurrent(apiWindow)]_vars
    /\ [][Records("ic_add", commandWindow) /\ Records("ia_add", apiWindow)]_vars
    /\ [](CountsCurrent(commandWindow) /\ CountsCurrent(apiWindow))

\* Three commands were recorded, the later two inserted out of order while
\* the first one, by then older than W, was evicted.
C25_Witness ==
    /\ CommandsTotal = 3
    /\ InFlight("RecordCommand") = {}
    /\ commandWindow.events = <<80, 40>>

\* ------------------------------------- claims about locking
\* p holds m.mutex, as the writer or as a reader.
HoldsRegistryLock(p) == rwWriter = p \/ p \in rwReaders

\* The labels at which a goroutine is about to take m.mutex, and those at
\* which it is about to take the mutex of a RateWindow.
AtLock == {"ic_lock", "ia_lock", "ie_lock"}
AtRLock == {"ga_sum", "gr_total", "gp_total", "gs_errs", "gs_cmdtotal"}
AtWindowLock == {"ic_add", "ic_rate", "ia_add", "ia_rate"}

\* A goroutine about to take a lock holds none.
LocksOneAtATime ==
    \A p \in Procs :
        pc[p] \in AtLock \cup AtRLock \cup AtWindowLock => ~HoldsRegistryLock(p)

\* C24: under fair scheduling every call of a registry operation that has
\* begun returns; no goroutine takes m.mutex or a RateWindow mutex while it
\* holds m.mutex, so the two are never held together and the read lock is
\* never taken twice by one goroutine.
C24_EveryCallReturns ==
    /\ []LocksOneAtATime
    /\ \A p \in Procs : (pc[p] # "idle") ~> (pc[p] = "idle")

\* A writer waits for the lock that a reader holds.
C24_Witness ==
    \E p, q \in Procs :
        /\ pc[p] \in AtLock
        /\ q \in rwReaders
        /\ ~CanLock(p)

\* ------------------------------------- claims about the dispatcher
RecordedCommand(successful) ==
    [op |-> "RecordCommand", successful |-> successful]
RecordedError(err) == [op |-> "RecordError", err |-> err]

\* What the dispatch of a message has recorded by the time it stands at a
\* stage after the handler, and once it has returned.
RecordsOf(message) ==
    /\ message.stage = "returned" => message.recorded = <<>>
    /\ message.stage = "logged"
          => /\ message.err = <<>>
             /\ message.recorded = <<RecordedCommand(TRUE)>>
    /\ message.stage = "command_recorded"
          => /\ message.err # <<>>
             /\ message.recorded = <<RecordedCommand(FALSE)>>
    /\ message.stage = "error_recorded"
          => message.recorded
                = <<RecordedCommand(FALSE), RecordedError(message.err)>>
    /\ (message.stage = "done" /\ message.kind \in {"bot", "no_prefix", "empty"})
          => /\ message.recorded = <<>>
             /\ message.replies = <<>> /\ message.unsent = <<>>
    /\ (message.stage = "done" /\ message.kind = "unknown")
          => message.recorded = <<>>
    /\ (message.stage = "done" /\ message.kind = "registered")
          => \/ /\ message.recorded = <<RecordedCommand(TRUE)>>
                /\ message.replies = <<"embed">> /\ message.unsent = <<>>
             \/ /\ message.recorded
                      = <<RecordedCommand(FALSE), RecordedError(NewDiscordError)>>
                /\ \/ message.replies = <<"error">>
                      /\ message.unsent = <<"embed">>
                   \/ message.replies = <<>>
                      /\ message.unsent = <<"embed", "error">>
    /\ message.stage \in {"handler", "send", "returned", "logged",
                          "command_recorded", "error_recorded"}
          => message.kind = "registered"
    /\ message.stage = "unknown" => message.kind = "unknown"

\* The error embed of an unknown command was sent once: it reached the
\* channel, or its send failed and nothing did.
ErrorReplySent(message) ==
    \/ message.replies = <<"error">> /\ message.unsent = <<>>
    \/ message.replies = <<>> /\ message.unsent = <<"error">>

\* No goroutine is inside messageCreate.
NoDispatch ==
    \A p \in Procs : pc[p] = "idle" /\ handling[p].stage \in {"none", "done"}

\* With no dispatch under way the registry holds one success per handler that
\* returned nil and one failure and one error per handler that did not.
RegistryAgrees ==
    NoDispatch
       => /\ CommandsSuccessful = calls.commandsOK
          /\ CommandsFailed = calls.commandsFailed
          /\ CommandsTotal = calls.commandsOK + calls.commandsFailed
          /\ ErrorsByType = calls.errors

\* C21 as stated: the dispatch of a message records one command outcome
\* exactly when the message resolves to a registered handler; a message from
\* a bot, without the prefix or with an empty command records nothing and
\* gets no reply; an unknown command records nothing and gets an error
\* reply in the channel.
C21_UnknownGetsReply ==
    /\ \A p \in Procs :
          /\ RecordsOf(handling[p])
          /\ (handling[p].stage = "done" /\ handling[p].kind = "unknown")
                => handling[p].replies = <<"error">>
    /\ RegistryAgrees

\* C21: the dispatch of a message records one command outcome exactly when
\* the message resolves to a registered handler: RecordCommand(true) when
\* the handler returned nil, RecordCommand(false) and then one RecordError of
\* the handler's error when it returned one; a message from a bot, without
\* the prefix or with an empty command records nothing and gets no reply; an
\* unknown command records nothing and is sent one error embed, which
\* reaches the channel unless ChannelMessageSendEmbed fails.
C21_OneOutcomePerCommand ==
    /\ \A p \in Procs :
          /\ RecordsOf(handling[p])
          /\ (handling[p].stage = "done" /\ handling[p].kind = "unknown")
                => ErrorReplySent(handling[p])
    /\ RegistryAgrees

\* One message was a command whose handler failed, another an unknown
\* command whose error embed could not be sent, and both dispatches have
\* returned.
C21_Witness ==
    /\ NoDispatch
    /\ \E p, q \in Procs :
          /\ handling[p].kind = "registered" /\ Len(handling[p].recorded) = 2
          /\ handling[q].kind = "unknown" /\ handling[q].stage = "done"
          /\ handling[q].unsent = <<"error">>

\* The sum of the counts of an error mapping.
RECURSIVE SumOver(_, _)
SumOver(errorsByType, types) ==
    IF types = {} THEN 0
    ELSE LET t == CHOOSE u \in types : TRUE
         IN  errorsByType[t] + SumOver(errorsByType, types \ {t})

ErrorsTotal == SumOver(ErrorsByType, DOMAIN ErrorsByType)

\* C26: with messageCreate as the only writer, the counts of ErrorsByType
\* sum to at most CommandsFailed in every state, and to exactly
\* CommandsFailed whenever no dispatch is under way.
C26_ErrorsWithinFailures ==
    /\ ErrorsTotal <= CommandsFailed
    /\ NoDispatch => ErrorsTotal = CommandsFailed

\* Two handlers have failed; the first failure has its error recorded and the
\* second, still being dispatched, has not.
C26_Witness ==
    /\ CommandsFailed = 2
    /\ ErrorsTotal = 1
    /\ \E p \in Procs : handling[p].stage = "command_recorded"

\* ------------------------------------- claims about Dev
\* No step starts the bot once Dev has a cause to stop.
NoFurtherStart == dev.cause # "none" => dev'.starts = dev.starts

\* C27: Dev starts the bot at most 11 times, once and then once per crash up
\* to the tenth; after the eleventh crash it returns an error without another
\* start; after a clean exit, an exit with code 1 or a stop signal taken from
\* its channel, which it forwards before it waits for the bot to end, Dev
\* starts nothing more and returns nil.
C27_BoundedRestarts ==
    /\ [](dev.starts <= MaxRestartCount + 1 /\ dev.starts <= dev.restartCount + 1)
    /\ [](dev.restartCount > MaxRestartCount
             => /\ dev.pc \in {"sleep", "returned"}
                /\ dev.pc = "returned" => dev.cause = "too many crashes")
    /\ [](dev.cause = "too many crashes"
             => dev.restartCount = MaxRestartCount + 1 /\ dev.err # "nil")
    /\ [](dev.cause \in {"clean exit", "exit code 1"}
             => dev.pc = "returned" /\ dev.err = "nil")
    /\ [](dev.cause = "signal"
             => \/ dev.pc = "forwarded"
                \/ dev.pc = "returned" /\ dev.err = "nil")
    /\ [][NoFurtherStart]_vars

\* The bot was started eleven times and crashed eleven times, and Dev has
\* returned its error.
C27_Witness ==
    /\ dev.pc = "returned"
    /\ dev.starts = MaxRestartCount + 1
    /\ dev.cause = "too many crashes"

\* The keys that the lines of a .env file define.
DefinedIn(file) ==
    {file.lines[i].key : i \in {j \in 1..Len(file.lines) :
                                    file.lines[j].kind = "pair"}}

\* The value that file gives key, without its quotes.
ValueIn(file, key) ==
    LET i == CHOOSE j \in 1..Len(file.lines) :
                 file.lines[j].kind = "pair" /\ file.lines[j].key = key
        value == file.lines[i].value
    IN  IF Len(value) = 3 THEN <<value[2]>> ELSE value

\* C29 as claimed: at every start of the bot each key that the .env file
\* defined when it was loaded for that start has, in the environment of the
\* bot, the value of the file, unless the key was set in the environment Dev
\* was run in.
C29_FreshAtEachStart ==
    dev.pc = "select"
        => \A key \in DefinedIn(dev.loaded) :
              dev.cmdEnv[key] = IF dev.system[key] # <<>> THEN dev.system[key]
                                ELSE ValueIn(dev.loaded, key)

\* ------------------------------------- claims about gracefulShutdown
\* C28: once the signal is received gracefulShutdown returns: it leaves its
\* select by the done case only after the goroutine that stops the bot and
\* takes the final summary has finished, by the other case only after the
\* timeout, and it does return even when bot.Stop() never does; GetSummary
\* is called only after bot.Stop() has returned.
C28_ShutdownReturns ==
    /\ [](shutdown.snapshot => shutdown.stopped # "none")
    /\ [](shutdown.outcome = "completed"
             => shutdown.routine = "finished" /\ shutdown.snapshot)
    /\ [](shutdown.outcome = "timeout" => shutdown.expired)
    /\ (shutdown.pc = "select") ~> (shutdown.pc = "returned")

\* gracefulShutdown has returned through the timeout while bot.Stop() has
\* not returned.
C28_Witness ==
    /\ shutdown.pc = "returned"
    /\ shutdown.outcome = "timeout"
    /\ shutdown.routine = "stop"

====
